---- MODULE Spec2Model ----
(***************************************************************************)
(* MCE cluster configuration generator (roiblum1/Redbull-API).             *)
(*                                                                         *)
(* The model covers the configuration assembly engine:                     *)
(*   config/constants.py        ConfigNames, MaxPods, Vendor               *)
(*   services/config_builder.py ConfigListBuilder (pure list builders)     *)
(*   defaults/defaults_manager.py DefaultsManager (list builders, registry)*)
(*   generators/cluster_builder.py ClusterBuilder, ClusterConfigGenerator  *)
(*   models/input.py, models/cluster.py  the pydantic models               *)
(*   services/converters.py, validators.py, cluster_service.py             *)
(*   utils/exceptions/decorators.py      handle_api_exceptions             *)
(*   git_ops/repository.py               GitRepository                     *)
(*   api/routers/clusters.py, cli.py     generate with the GitOps steps    *)
(*                                                                         *)
(* Python strings that the code concatenates, strips or formats are        *)
(* sequences of one-character strings, so that f-strings, str.strip() and  *)
(* str(int) are computed and not assumed.  Strings the code only stores    *)
(* and copies (site, dns domain, infra env name, versions, registry data)  *)
(* are TLA+ strings.                                                       *)
(***************************************************************************)
EXTENDS Integers, Sequences, FiniteSets, TLC

VARIABLES
    builder,        \* ClusterConfigGenerator.builder: the ClusterBuilder fields
    version_files,  \* the files image_content_sources/<v>.yaml that exist
    ics_cache,      \* lru_cache of DefaultsManager.get_image_content_sources
    call,           \* the last call made on the generator and what it returned
    cfg,            \* the last ConfigListBuilder call and what it returned
    threads,        \* the generate() calls in progress on the generator, per thread
    yaml,           \* the text the last generate_yaml returned, and what it loads to
    flavors,        \* the flavors directory and the lru_cache of _get_flavors_cache
    repo            \* the Git repository at the GitOps repository path

vars == <<builder, version_files, ics_cache, call, cfg, threads, yaml, flavors, repo>>

(***************************************************************************)
(* Bounds of the model.                                                    *)
(***************************************************************************)
MaxVendorConfigs == 2   \* longest vendor_configs list drawn
MaxCustomConfigs == 2   \* longest custom_configs list drawn
MaxNodepools == 2       \* cap on ClusterBuilder._nodepools (it can grow without bound)

(***************************************************************************)
(* Python string primitives.                                               *)
(***************************************************************************)
Digits == <<"0", "1", "2", "3", "4", "5", "6", "7", "8", "9">>

\* str(n) for an int n: a minus sign for n < 0, then the decimal digits,
\* most significant first.
RECURSIVE str(_)
str(n) == IF n < 0 THEN <<"-">> \o str(0 - n)
          ELSE IF n < 10 THEN <<Digits[n + 1]>>
          ELSE str(n \div 10) \o <<Digits[(n % 10) + 1]>>

\* int(s) for a string of decimal digits.
DigitValue(c) == CHOOSE d \in 0..9 : Digits[d + 1] = c

RECURSIVE int(_)
int(s) == IF s = <<>> THEN 0
          ELSE 10 * int(SubSeq(s, 1, Len(s) - 1)) + DigitValue(s[Len(s)])

Whitespace == {" ", "\t", "\n"}

RECURSIVE lstrip(_)
lstrip(s) == IF s # <<>> /\ Head(s) \in Whitespace THEN lstrip(Tail(s)) ELSE s

RECURSIVE rstrip(_)
rstrip(s) == IF s # <<>> /\ s[Len(s)] \in Whitespace
             THEN rstrip(SubSeq(s, 1, Len(s) - 1)) ELSE s

\* str.strip(): leading and trailing whitespace removed.
strip(s) == rstrip(lstrip(s))

\* max(a, b) of two ints.
max(a, b) == IF a >= b THEN a ELSE b

(***************************************************************************)
(* config/constants.py                                                     *)
(***************************************************************************)
CISCO == <<"c", "i", "s", "c", "o">>
DELL == <<"d", "e", "l", "l">>
DELL_DATA == <<"d", "e", "l", "l", "-", "d", "a", "t", "a">>
H100_GPU == <<"h", "1", "0", "0", "-", "g", "p", "u">>
H200_GPU == <<"h", "2", "0", "0", "-", "g", "p", "u">>

\* Vendor.values(), in declaration order.
Vendor_values == <<CISCO, DELL, DELL_DATA, H100_GPU, H200_GPU>>

STANDARD == 250
HIGH_DENSITY == 500

WORKERS_CHRONY == <<"w", "o", "r", "k", "e", "r", "s", "-", "c", "h", "r", "o", "n", "y",
                    "-", "c", "o", "n", "f", "i", "g", "u", "r", "a", "t", "i", "o", "n">>
KUBELET_CONFIG_250 == <<"w", "o", "r", "k", "e", "r", "-", "k", "u", "b", "e", "l", "e",
                        "t", "c", "o", "n", "f", "i", "g">>
KUBELET_CONFIG_500 == <<"w", "o", "r", "k", "e", "r", "-", "k", "u", "b", "e", "l", "e",
                        "t", "c", "o", "n", "f", "i", "g", "-", "5", "0", "0">>
VAR_LIB_CONTAINERS == <<"9", "8", "-", "v", "a", "r", "-", "l", "i", "b", "-", "c", "o",
                        "n", "t", "a", "i", "n", "e", "r", "s">>
RINGSIZE == <<"r", "i", "n", "g", "s", "i", "z", "e">>

\* A name made of the cluster name alone.
get_nm_conf_name_cluster_only(cluster_name, vendor) ==
    <<"n", "m", "-", "c", "o", "n", "f", "-">> \o cluster_name

\* f"nm-conf-{cluster_name}-{vendor}"
get_nm_conf_name(cluster_name, vendor) ==
    <<"n", "m", "-", "c", "o", "n", "f", "-">> \o cluster_name \o <<"-">> \o vendor

\* The kubelet name without the density switch.
get_kubelet_config_name_standard_only(max_pods) == KUBELET_CONFIG_250

get_kubelet_config_name(max_pods) ==
    IF max_pods = HIGH_DENSITY THEN KUBELET_CONFIG_500 ELSE KUBELET_CONFIG_250

(***************************************************************************)
(* services/config_builder.py: ConfigListBuilder                           *)
(***************************************************************************)
\* A slip of the density test: the standard density forces var-lib.
_should_include_var_lib_at_standard(include_var_lib, max_pods) ==
    include_var_lib \/ max_pods = STANDARD

_should_include_var_lib(include_var_lib, max_pods) ==
    include_var_lib \/ max_pods = HIGH_DENSITY

\* [get_nm_conf_name(cluster_name, vendor) for vendor in vendors]
_build_nm_conf_names(cluster_name, vendors) ==
    [i \in 1..Len(vendors) |-> get_nm_conf_name(cluster_name, vendors[i])]

_build_base_configs(max_pods) ==
    <<WORKERS_CHRONY>> \o <<get_kubelet_config_name(max_pods)>>

\* Appends in place; the model returns the list after the appends.
_add_optional_configs(configs, include_var_lib, max_pods, include_ringsize) ==
    LET c1 == IF _should_include_var_lib(include_var_lib, max_pods)
              THEN Append(configs, VAR_LIB_CONTAINERS) ELSE configs
    IN  IF include_ringsize THEN Append(c1, RINGSIZE) ELSE c1

\* Custom configs appended with a collision check: a name the list already
\* holds is skipped.
RECURSIVE _add_custom_configs_dedup(_, _)
_add_custom_configs_dedup(configs, custom_configs) ==
    IF custom_configs = <<>> THEN configs
    ELSE _add_custom_configs_dedup(
             IF /\ strip(Head(custom_configs)) # <<>>
                /\ \A i \in 1..Len(configs) : configs[i] # strip(Head(custom_configs))
             THEN Append(configs, strip(Head(custom_configs))) ELSE configs,
             Tail(custom_configs))

\* for config in custom_configs: if config.strip(): configs.append(config.strip())
RECURSIVE _add_custom_configs(_, _)
_add_custom_configs(configs, custom_configs) ==
    IF custom_configs = <<>> THEN configs
    ELSE _add_custom_configs(
             IF strip(Head(custom_configs)) # <<>>
             THEN Append(configs, strip(Head(custom_configs))) ELSE configs,
             Tail(custom_configs))

build_for_nodepool(cluster_name, vendor, max_pods, include_var_lib_containers, include_ringsize, custom_configs) ==
    LET c0 == <<get_nm_conf_name(cluster_name, vendor)>>
        c1 == c0 \o _build_base_configs(max_pods)
        c2 == _add_optional_configs(c1, include_var_lib_containers, max_pods,
                                    include_ringsize)
    IN  _add_custom_configs(c2, custom_configs)

build_mc_files(cluster_name, vendors, max_pods, include_var_lib_containers, include_ringsize, custom_configs) ==
    LET m0 == _build_nm_conf_names(cluster_name, vendors)
        m1 == m0 \o _build_base_configs(max_pods)
        m2 == _add_optional_configs(m1, include_var_lib_containers, max_pods,
                                    include_ringsize)
    IN  _add_custom_configs(m2, custom_configs)

(***************************************************************************)
(* defaults/defaults_manager.py: DefaultsManager                           *)
(***************************************************************************)
SUPPORTED_VERSIONS == <<"4.15", "4.16">>

\* ["workers-chrony-configuration", "worker-kubeletconfig"]
DEFAULT_CONFIGS == <<WORKERS_CHRONY, KUBELET_CONFIG_250>>

\* {"var_lib_containers": "98-var-lib-containers", "ringsize": "ringsize"}
OPTIONAL_CONFIGS == [var_lib_containers |-> VAR_LIB_CONTAINERS, ringsize |-> RINGSIZE]

DEFAULT_DNS_DOMAIN == "example.company.com"

\* A DefaultsManager without a default domain.
get_default_dns_domain_none == ""

get_default_dns_domain == DEFAULT_DNS_DOMAIN

\* The custom-config loop shared by build_config_list (which wraps each name
\* in {"name": ...}) and build_mc_files_list (which appends the bare name).
RECURSIVE stripped_non_blank(_)
stripped_non_blank(custom_configs) ==
    IF custom_configs = <<>> THEN <<>>
    ELSE (IF strip(Head(custom_configs)) # <<>>
          THEN <<strip(Head(custom_configs))>> ELSE <<>>)
         \o stripped_non_blank(Tail(custom_configs))

\* DefaultsManager.build_config_list as declared in defaults_manager.py: it has
\* no max_pods parameter and its body never looks at the pod density.
build_config_list(cluster_name, vendor, include_var_lib_containers, include_ringsize, custom_configs) ==
    LET names == <<<<"n", "m", "-", "c", "o", "n", "f", "-">>
                    \o cluster_name \o <<"-">> \o vendor>>
                 \o DEFAULT_CONFIGS
                 \o (IF include_var_lib_containers
                     THEN <<OPTIONAL_CONFIGS.var_lib_containers>> ELSE <<>>)
                 \o (IF include_ringsize THEN <<OPTIONAL_CONFIGS.ringsize>> ELSE <<>>)
                 \o stripped_non_blank(custom_configs)
    IN  [i \in 1..Len(names) |-> [name |-> names[i]]]

\* build_mc_files_list that names every vendor once.
build_mc_files_list_unique_vendors(cluster_name, vendors, include_var_lib_containers, include_ringsize, custom_configs) ==
    LET nm == [i \in 1..Len(vendors) |->
                  <<"n", "m", "-", "c", "o", "n", "f", "-">> \o cluster_name \o <<"-">> \o vendors[i]]
    IN  SelectSeq([i \in 1..Len(nm) |-> IF \E j \in 1..(i - 1) : nm[j] = nm[i] THEN <<>> ELSE nm[i]],
                  LAMBDA e : e # <<>>)
        \o DEFAULT_CONFIGS
        \o (IF include_var_lib_containers
            THEN <<OPTIONAL_CONFIGS.var_lib_containers>> ELSE <<>>)
        \o (IF include_ringsize THEN <<OPTIONAL_CONFIGS.ringsize>> ELSE <<>>)
        \o stripped_non_blank(custom_configs)

build_mc_files_list(cluster_name, vendors, include_var_lib_containers, include_ringsize, custom_configs) ==
    [i \in 1..Len(vendors) |->
        <<"n", "m", "-", "c", "o", "n", "f", "-">> \o cluster_name \o <<"-">> \o vendors[i]]
    \o DEFAULT_CONFIGS
    \o (IF include_var_lib_containers
        THEN <<OPTIONAL_CONFIGS.var_lib_containers>> ELSE <<>>)
    \o (IF include_ringsize THEN <<OPTIONAL_CONFIGS.ringsize>> ELSE <<>>)
    \o stripped_non_blank(custom_configs)

\* The mirror data of image_content_sources/<version>.yaml (key
\* imageContentSources): one list of {source, mirrors} per version.
VersionFileSources(version) ==
    IF version = "4.15"
    THEN <<[source |-> "quay.io/openshift-release-dev/ocp-release",
            mirrors |-> <<"registry.local/ocp415/release">>]>>
    ELSE <<[source |-> "quay.io/openshift-release-dev/ocp-release",
            mirrors |-> <<"registry.local/ocp416/release">>],
           [source |-> "quay.io/openshift-release-dev/ocp-v4.0-art-dev",
            mirrors |-> <<"registry.local/ocp416/art-dev", "mirror2.local/art-dev">>]>>

\* How the set of registry files names a <version>.yaml that holds a mapping
\* without the key imageContentSources (a file with the key is named by its
\* version).
NoKeyFile(version) ==
    CASE version = "4.15" -> "4.15.yaml without imageContentSources"
      [] version = "4.16" -> "4.16.yaml without imageContentSources"
      [] OTHER -> "without imageContentSources"

\* data.get('imageContentSources', []) for the existing file of the version
data_get_imageContentSources(version, files) ==
    IF version \in files THEN VersionFileSources(version) ELSE <<>>

\* get_image_content_sources(version) under @lru_cache: a cached version is
\* answered from the cache; otherwise ValueError for an unsupported version,
\* FileNotFoundError when the version file is missing, else the file's list
\* or the default [], which the cache then holds.  A raised call caches
\* nothing.  The files do not change while the process runs, so what the
\* cache holds for a version is what the file gives.
get_image_content_sources(version, files, cache) ==
    IF version \in cache
    THEN [raised |-> "", sources |-> data_get_imageContentSources(version, files),
          cache |-> cache]
    ELSE IF \A i \in 1..Len(SUPPORTED_VERSIONS) : SUPPORTED_VERSIONS[i] # version
    THEN [raised |-> "ValueError", sources |-> <<>>, cache |-> cache]
    ELSE IF version \notin files /\ NoKeyFile(version) \notin files
    THEN [raised |-> "FileNotFoundError", sources |-> <<>>, cache |-> cache]
    ELSE [raised |-> "", sources |-> data_get_imageContentSources(version, files),
          cache |-> cache \cup {version}]

(***************************************************************************)
(* models/cluster.py                                                       *)
(***************************************************************************)
\* AgentLabelSelector.nodeLabelKey default
NODE_LABEL_KEY == "infraenvs.agent-install.openshift.io"

\* A NodePool whose replicas field has no lower bound.
NodePool_valid_unbounded(replicas) == TRUE

\* NodePool(...): replicas is declared ge=1, so construction raises a
\* ValidationError for replicas < 1.
NodePool_valid(replicas) == replicas >= 1

(***************************************************************************)
(* generators/cluster_builder.py: ClusterBuilder                           *)
(* None and the empty string are both falsy and the builder only tests     *)
(* truthiness before it uses a field, so None is the empty string here.    *)
(***************************************************************************)
_reset ==
    [cluster_name |-> <<>>, site |-> "", dns_domain |-> "", max_pods |-> 250,
     nodepools |-> <<>>, mc_files |-> <<>>, image_content_sources |-> <<>>]

set_cluster_name(b, name) == [b EXCEPT !.cluster_name = name]
set_site(b, site) == [b EXCEPT !.site = site]
set_dns_domain(b, domain) == [b EXCEPT !.dns_domain = domain]
set_max_pods(b, max_pods) == [b EXCEPT !.max_pods = max_pods]

\* The labels without the clamp of minReplicas at 1.
NodePoolLabels_unclamped(replicas) ==
    [maxReplicas |-> str(replicas), minReplicas |-> str(replicas - 1)]

\* The labels with the clamp of minReplicas at 2 instead of 1.
NodePoolLabels_clamped_at_two(replicas) ==
    [maxReplicas |-> str(replicas), minReplicas |-> str(max(2, replicas - 1))]

\* NodePoolLabels(maxReplicas=str(replicas), minReplicas=str(max(1, replicas - 1)))
NodePoolLabels(replicas) ==
    [maxReplicas |-> str(replicas), minReplicas |-> str(max(1, replicas - 1))]

\* Returns [raised, b]: the exception raised ("" for none) and the builder after.
add_nodepool(b, vendor, replicas, infra_env_name, include_var_lib_containers, include_ringsize, custom_configs) ==
    IF b.cluster_name = <<>>
    THEN [raised |-> "ValueError", b |-> b]
    ELSE LET config_items ==
                 \* the call site also passes max_pods=self._max_pods
                 build_config_list(b.cluster_name, vendor, include_var_lib_containers,
                                   include_ringsize, custom_configs)
             nodepool ==
                 [name |-> b.cluster_name \o <<"-">> \o vendor
                           \o <<"-", "n", "o", "d", "e", "p", "o", "o", "l">>,
                  replicas |-> replicas,
                  labels |-> NodePoolLabels(replicas),
                  agentLabelSelector |-> [nodeLabelKey |-> NODE_LABEL_KEY,
                                          nodeLabelValue |-> infra_env_name],
                  config |-> [i \in 1..Len(config_items) |->
                                 [name |-> config_items[i].name]]]
         IN  IF ~NodePool_valid(replicas)
             THEN [raised |-> "ValidationError", b |-> b]
             ELSE [raised |-> "",
                   b |-> [b EXCEPT !.nodepools = Append(b.nodepools, nodepool)]]

set_mc_files(b, vendors, include_var_lib_containers, include_ringsize, custom_configs) ==
    IF b.cluster_name = <<>>
    THEN [raised |-> "ValueError", b |-> b]
    ELSE [raised |-> "",
          b |-> [b EXCEPT !.mc_files =
                     \* the call site also passes max_pods=self._max_pods
                     build_mc_files_list(b.cluster_name, vendors,
                                         include_var_lib_containers,
                                         include_ringsize, custom_configs)]]

\* Returns [raised, b, cache].
set_image_content_sources(b, version, files, cache) ==
    LET got == get_image_content_sources(version, files, cache)
    IN  IF got.raised # ""
        THEN [raised |-> got.raised, b |-> b, cache |-> got.cache]
        ELSE [raised |-> "",
              b |-> [b EXCEPT !.image_content_sources =
                         [i \in 1..Len(got.sources) |->
                             [source |-> got.sources[i].source,
                              mirrors |-> got.sources[i].mirrors]]],
              cache |-> got.cache]

\* build() that hands out the document and keeps the builder as it is.
build_without_reset(b) ==
    IF b.cluster_name = <<>> \/ b.site = "" \/ b.nodepools = <<>>
    THEN [raised |-> "ValueError", b |-> b, config |-> <<>>]
    ELSE [raised |-> "",
          b |-> b,
          config |-> <<[clusterName |-> b.cluster_name,
                        platform |-> "agent",
                        hostInventory |-> "inventory",
                        nodepool |-> b.nodepools,
                        mcFiles |-> b.mc_files,
                        dns |-> [site |-> b.site,
                                 zone |-> IF b.dns_domain # "" THEN b.dns_domain
                                          ELSE get_default_dns_domain],
                        imageContentSources |-> b.image_content_sources]>>]

\* build() that resets the builder also when it raises.
build_reset_on_failure(b) ==
    IF b.cluster_name = <<>> \/ b.site = "" \/ b.nodepools = <<>>
    THEN [raised |-> "ValueError", b |-> _reset, config |-> <<>>]
    ELSE [raised |-> "",
          b |-> _reset,
          config |-> <<[clusterName |-> b.cluster_name,
                        platform |-> "agent",
                        hostInventory |-> "inventory",
                        nodepool |-> b.nodepools,
                        mcFiles |-> b.mc_files,
                        dns |-> [site |-> b.site,
                                 zone |-> IF b.dns_domain # "" THEN b.dns_domain
                                          ELSE get_default_dns_domain],
                        imageContentSources |-> b.image_content_sources]>>]

\* Returns [raised, b, config]: config is <<>> or <<the ClusterConfig>>.
build(b) ==
    IF b.cluster_name = <<>> \/ b.site = "" \/ b.nodepools = <<>>
    THEN [raised |-> "ValueError", b |-> b, config |-> <<>>]
    ELSE LET dns_domain == IF b.dns_domain # "" THEN b.dns_domain
                           ELSE get_default_dns_domain
         IN  [raised |-> "",
              b |-> _reset,
              config |-> <<[clusterName |-> b.cluster_name,
                            platform |-> "agent",
                            hostInventory |-> "inventory",
                            nodepool |-> b.nodepools,
                            mcFiles |-> b.mc_files,
                            dns |-> [site |-> b.site, zone |-> dns_domain],
                            imageContentSources |-> b.image_content_sources]>>]

(***************************************************************************)
(* models/input.py                                                         *)
(***************************************************************************)
LowerLetters == {"a", "b", "c", "d", "e", "f", "g", "h", "i", "j", "k", "l", "m",
                 "n", "o", "p", "q", "r", "s", "t", "u", "v", "w", "x", "y", "z"}
DigitChars == {Digits[i] : i \in 1..Len(Digits)}

\* VendorConfig.number_of_nodes: Field(..., ge=1, le=100)
NUMBER_OF_NODES_GE == 1
NUMBER_OF_NODES_LE == 100

\* VendorConfig: vendor in the validator's set, ge <= number_of_nodes <= le,
\* infra_env_name of length >= 1.
VendorConfig_valid(vc) ==
    /\ vc.vendor \in {CISCO, DELL, DELL_DATA, H100_GPU, H200_GPU}
    /\ vc.number_of_nodes >= NUMBER_OF_NODES_GE
    /\ vc.number_of_nodes <= NUMBER_OF_NODES_LE
    /\ vc.infra_env_name # ""

\* cluster_name: min_length=1, max_length=63,
\* pattern ^[a-z0-9]([-a-z0-9]*[a-z0-9])?$
cluster_name_pattern(v) ==
    /\ Len(v) >= 1
    /\ Len(v) <= 63
    /\ \A i \in 1..Len(v) : v[i] \in LowerLetters \cup DigitChars \cup {"-"}
    /\ v[1] # "-"
    /\ v[Len(v)] # "-"

\* The pattern, and validate_cluster_name: v.islower() (at least one letter,
\* none upper case), no leading or trailing hyphen.
cluster_name_valid(v) ==
    /\ cluster_name_pattern(v)
    /\ \E i \in 1..Len(v) : v[i] \in LowerLetters

\* validate_custom_configs: [config.strip() for config in v if config.strip()]
validate_custom_configs(v) == stripped_non_blank(v)

\* ClusterGenerationInput(**raw): [raised, value].  The drawn sites are
\* alphanumeric names, which validate_site accepts.  max_pods is the field
\* that RequestConverter passes and ClusterConfigGenerator.generate reads.
ClusterGenerationInput(raw) ==
    IF /\ cluster_name_valid(raw.cluster_name)
       /\ raw.site # ""
       /\ Len(raw.vendor_configs) >= 1
       /\ \A i \in 1..Len(raw.vendor_configs) : VendorConfig_valid(raw.vendor_configs[i])
       /\ raw.ocp_version \in {"4.15", "4.16"}
    THEN [raised |-> "",
          value |-> <<[raw EXCEPT !.custom_configs = validate_custom_configs(@)]>>]
    ELSE [raised |-> "ValidationError", value |-> <<>>]

(***************************************************************************)
(* generators/cluster_builder.py: ClusterConfigGenerator                   *)
(***************************************************************************)
\* for vendor_config in input_params.vendor_configs: self.builder.add_nodepool(...)
\* The first add_nodepool that raises ends the loop.
RECURSIVE add_nodepools(_, _, _)
add_nodepools(b, vendor_configs, input_params) ==
    IF vendor_configs = <<>> THEN [raised |-> "", b |-> b]
    ELSE LET vc == Head(vendor_configs)
             r == add_nodepool(b, vc.vendor, vc.number_of_nodes, vc.infra_env_name,
                               input_params.include_var_lib_containers,
                               input_params.include_ringsize,
                               input_params.custom_configs)
         IN  IF r.raised # "" THEN r
             ELSE add_nodepools(r.b, Tail(vendor_configs), input_params)

\* generate(input_params) on the generator whose builder is b:
\* [raised, b, cache, config].  An exception leaves the builder as the steps
\* before it left it; only build() resets the builder.  The steps of generate
\* follow, last first; each takes what the step before it returned.

\* return self.builder.build()
generate_build(r5, cache) ==
    [raised |-> r5.raised, b |-> r5.b, cache |-> cache, config |-> r5.config]

\* self.builder.set_image_content_sources(input_params.ocp_version) has returned r4
generate_after_image_sources(r4) ==
    IF r4.raised # ""
    THEN [raised |-> r4.raised, b |-> r4.b, cache |-> r4.cache, config |-> <<>>]
    ELSE generate_build(build(r4.b), r4.cache)

\* self.builder.set_mc_files(...) has returned r3
generate_after_mc_files(r3, input_params, files, cache) ==
    IF r3.raised # ""
    THEN [raised |-> r3.raised, b |-> r3.b, cache |-> cache, config |-> <<>>]
    ELSE generate_after_image_sources(
             set_image_content_sources(r3.b, input_params.ocp_version, files, cache))

\* the add_nodepool loop has returned r2
generate_after_nodepools(r2, input_params, files, cache) ==
    IF r2.raised # ""
    THEN [raised |-> r2.raised, b |-> r2.b, cache |-> cache, config |-> <<>>]
    ELSE generate_after_mc_files(
             set_mc_files(r2.b,
                          [i \in 1..Len(input_params.vendor_configs) |->
                              input_params.vendor_configs[i].vendor],
                          input_params.include_var_lib_containers,
                          input_params.include_ringsize,
                          input_params.custom_configs),
             input_params, files, cache)

generate(b, input_params, files, cache) ==
    generate_after_nodepools(
        add_nodepools(
            set_max_pods(
                set_dns_domain(
                    set_site(set_cluster_name(b, input_params.cluster_name),
                             input_params.site),
                    input_params.dns_domain),
                input_params.max_pods),
            input_params.vendor_configs, input_params),
        input_params, files, cache)

(***************************************************************************)
(* services/validators.py, services/converters.py, services/cluster_service.py *)
(***************************************************************************)
\* validate_vendors: HTTPException(400) at the first vendor outside Vendor.values().
validate_vendors(vendor_configs) ==
    IF \E i \in 1..Len(vendor_configs) :
           \A j \in 1..Len(Vendor_values) : Vendor_values[j] # vendor_configs[i].vendor
    THEN "HTTPException400" ELSE ""

\* The characters of vendor names in code-point order, for sorted().
CodePoints ==
    <<"-", "0", "1", "2", "3", "4", "5", "6", "7", "8", "9", "a", "b", "c", "d",
      "e", "f", "g", "h", "i", "j", "k", "l", "m", "n", "o", "p", "q", "r", "s",
      "t", "u", "v", "w", "x", "y", "z">>

ord(c) == CHOOSE i \in 1..Len(CodePoints) : CodePoints[i] = c

\* a < b for two str
RECURSIVE str_lt(_, _)
str_lt(a, b) ==
    IF b = <<>> THEN FALSE
    ELSE IF a = <<>> THEN TRUE
    ELSE IF Head(a) # Head(b) THEN ord(Head(a)) < ord(Head(b))
    ELSE str_lt(Tail(a), Tail(b))

\* sorted(S) for a set of str
RECURSIVE sorted(_)
sorted(S) ==
    IF S = {} THEN <<>>
    ELSE LET least == CHOOSE x \in S : \A y \in S \ {x} : str_lt(x, y)
         IN  <<least>> \o sorted(S \ {least})

\* sep.join(strs)
RECURSIVE join(_, _)
join(sep, strs) ==
    IF strs = <<>> THEN <<>>
    ELSE IF Len(strs) = 1 THEN strs[1]
    ELSE strs[1] \o sep \o join(sep, Tail(strs))

\* The detail of the HTTPException validate_vendors raises:
\* f"Invalid vendor: {vc.vendor}. Valid vendors: {', '.join(sorted(valid_vendors))}"
\* for the first vc whose vendor is not valid; <<>> when it raises nothing.
validate_vendors_detail(vendor_configs) ==
    LET valid_vendors == {Vendor_values[j] : j \in 1..Len(Vendor_values)}
        bad == {i \in 1..Len(vendor_configs) : vendor_configs[i].vendor \notin valid_vendors}
    IN  IF bad = {} THEN <<>>
        ELSE <<"I", "n", "v", "a", "l", "i", "d", " ", "v", "e", "n", "d", "o", "r", ":", " ">>
             \o vendor_configs[CHOOSE i \in bad : \A j \in bad : i <= j].vendor
             \o <<".", " ", "V", "a", "l", "i", "d", " ", "v", "e", "n", "d", "o", "r", "s", ":", " ">>
             \o join(<<",", " ">>, sorted(valid_vendors))

_should_include_var_lib_containers(include_var_lib, max_pods) ==
    include_var_lib \/ max_pods = HIGH_DENSITY

\* from_generate_request / from_preview_request (the two bodies are the same).
from_generate_request(request) ==
    ClusterGenerationInput(
        [request EXCEPT !.include_var_lib_containers =
             _should_include_var_lib_containers(request.include_var_lib_containers,
                                                request.max_pods)])

\* ClusterService.generate_cluster / preview_cluster:
\* [raised, b, cache, input, config, response].

\* self.generator.generate_yaml(cluster_input) has returned g; the response
generate_cluster_response(request, cluster_input, g) ==
    IF g.raised # ""
    THEN [raised |-> g.raised, b |-> g.b, cache |-> g.cache,
          input |-> cluster_input.value, config |-> <<>>, response |-> <<>>, detail |-> <<>>]
    ELSE [raised |-> "", b |-> g.b, cache |-> g.cache,
          input |-> cluster_input.value, config |-> g.config,
          response |-> <<[vendors_used |->
                              [i \in 1..Len(request.vendor_configs) |->
                                  request.vendor_configs[i].vendor],
                          nodepool_count |-> Len(request.vendor_configs)]>>,
          detail |-> <<>>]

\* self.converter.from_generate_request(request) has returned cluster_input
generate_cluster_converted(b, request, cluster_input, files, cache) ==
    IF cluster_input.raised # ""
    THEN [raised |-> cluster_input.raised, b |-> b, cache |-> cache,
          input |-> <<>>, config |-> <<>>, response |-> <<>>, detail |-> <<>>]
    ELSE generate_cluster_response(
             request, cluster_input,
             generate(b, cluster_input.value[1], files, cache))

\* generate_cluster that converts the request before it validates the vendors.
generate_cluster_convert_first(b, request, files, cache) ==
    IF from_generate_request(request).raised # ""
    THEN [raised |-> from_generate_request(request).raised, b |-> b,
          cache |-> cache, input |-> <<>>, config |-> <<>>, response |-> <<>>,
          detail |-> <<>>]
    ELSE IF validate_vendors(request.vendor_configs) # ""
    THEN [raised |-> validate_vendors(request.vendor_configs), b |-> b,
          cache |-> cache, input |-> <<>>, config |-> <<>>, response |-> <<>>,
          detail |-> validate_vendors_detail(request.vendor_configs)]
    ELSE generate_cluster_converted(b, request, from_generate_request(request),
                                    files, cache)

generate_cluster(b, request, files, cache) ==
    IF validate_vendors(request.vendor_configs) # ""
    THEN [raised |-> validate_vendors(request.vendor_configs), b |-> b,
          cache |-> cache, input |-> <<>>, config |-> <<>>, response |-> <<>>,
          detail |-> validate_vendors_detail(request.vendor_configs)]
    ELSE generate_cluster_converted(b, request, from_generate_request(request),
                                    files, cache)

\* preview_cluster: the steps of generate_cluster, with from_preview_request
\* (whose body is that of from_generate_request).
preview_cluster(b, request, files, cache) ==
    IF validate_vendors(request.vendor_configs) # ""
    THEN [raised |-> validate_vendors(request.vendor_configs), b |-> b,
          cache |-> cache, input |-> <<>>, config |-> <<>>, response |-> <<>>,
          detail |-> validate_vendors_detail(request.vendor_configs)]
    ELSE generate_cluster_converted(b, request, from_generate_request(request),
                                    files, cache)

\* settings.DEFAULT_DNS_DOMAIN
SETTINGS_DEFAULT_DNS_DOMAIN == "example.company.com"

\* f"{v['vendor']}-infra", as the stored string it is from there on
vendor_infra(vendor) ==
    CASE vendor = DELL -> "dell-infra"
      [] vendor = CISCO -> "cisco-infra"
      [] vendor = <<"h", "p">> -> "hp-infra"
      [] OTHER -> "acme-infra"

\* ClusterFlavor.to_dict(): the request fields a flavor gives.  A vendor
\* entry without infra_env carries <<>> there.
ClusterFlavor_to_dict(flavor) ==
    [vendor_configs |-> [i \in 1..Len(flavor.vendors) |->
                            [vendor |-> flavor.vendors[i].vendor,
                             number_of_nodes |-> flavor.vendors[i].nodes,
                             infra_env_name |->
                                 IF flavor.vendors[i].infra_env = <<>>
                                 THEN vendor_infra(flavor.vendors[i].vendor)
                                 ELSE flavor.vendors[i].infra_env[1]]],
     ocp_version |-> flavor.ocp_version,
     max_pods |-> flavor.max_pods,
     include_var_lib_containers |-> flavor.include_var_lib_containers,
     include_ringsize |-> flavor.include_ringsize,
     custom_configs |-> flavor.custom_configs]

\* GenerateClusterRequest(**request_data): the field constraints of
\* ClusterRequestBase and VendorConfigRequest; the vendor is any str.
GenerateClusterRequest_valid(request) ==
    /\ cluster_name_pattern(request.cluster_name)
    /\ request.site # ""
    /\ Len(request.vendor_configs) >= 1
    /\ \A i \in 1..Len(request.vendor_configs) :
           /\ request.vendor_configs[i].number_of_nodes >= NUMBER_OF_NODES_GE
           /\ request.vendor_configs[i].number_of_nodes <= NUMBER_OF_NODES_LE
           /\ request.vendor_configs[i].infra_env_name # ""
    /\ request.ocp_version \in {"4.15", "4.16"}
    /\ request.max_pods \in {STANDARD, HIGH_DENSITY}

\* generate_from_flavor, once the request is built from the flavor
generate_from_flavor_request(b, request, files, cache) ==
    IF ~GenerateClusterRequest_valid(request)
    THEN [raised |-> "ValidationError", b |-> b, cache |-> cache, input |-> <<>>,
          config |-> <<>>, response |-> <<>>, detail |-> <<>>]
    ELSE IF validate_vendors(request.vendor_configs) # ""
    THEN [raised |-> validate_vendors(request.vendor_configs), b |-> b,
          cache |-> cache, input |-> <<>>, config |-> <<>>, response |-> <<>>,
          detail |-> validate_vendors_detail(request.vendor_configs)]
    ELSE generate_cluster_converted(b, request, from_generate_request(request),
                                    files, cache)

\* _load_all_flavors(): the flavors dict, as its (key, flavor) items in
\* insertion order, which is the sorted order of the files.  A file that
\* _load_flavor_from_file rejects (data <<>>) adds nothing.
RECURSIVE _load_all_flavors(_)
_load_all_flavors(disk) ==
    IF disk = <<>> THEN <<>>
    ELSE (IF Head(disk).data = <<>> THEN <<>>
          ELSE <<[key |-> Head(disk).stem, flavor |-> Head(disk).data[1]]>>)
         \o _load_all_flavors(Tail(disk))

\* A reload that empties the cached dict in place, for the load to fill.
cache_clear_in_place(f) == [f EXCEPT !.cache = <<<<>>>>]

\* _get_flavors_cache.cache_clear()
cache_clear(f) == [f EXCEPT !.cache = <<>>]

\* What lru_cache does with the result of a call that missed: it keeps it
\* unless another call stored one while this one was loading.
lru_cache_store(f, result) ==
    IF f.cache = <<>> THEN [f EXCEPT !.cache = <<result>>] ELSE f

\* _get_flavors_cache() under @lru_cache(maxsize=1): [table, f] where f is
\* the flavors state the call leaves.
_get_flavors_cache(f) ==
    IF f.cache # <<>>
    THEN [table |-> f.cache[1], f |-> f]
    ELSE [table |-> _load_all_flavors(f.disk),
          f |-> [f EXCEPT !.cache = <<_load_all_flavors(f.disk)>>]]

\* get_flavor on a loaded table: <<>> for KeyError, else <<flavor>>.
get_flavor(table, flavor_name) ==
    IF \A i \in 1..Len(table) : table[i].key # flavor_name
    THEN <<>>
    ELSE <<table[CHOOSE i \in 1..Len(table) : table[i].key = flavor_name].flavor>>

\* generate_from_flavor(flavor_name, cluster_name, site, dns_domain) with the
\* table get_flavor reads; dns_domain "" stands for None.
generate_from_flavor(b, table, a, files, cache) ==
    IF get_flavor(table, a.flavor_name) = <<>>
    THEN [raised |-> "KeyError", b |-> b, cache |-> cache, input |-> <<>>,
          config |-> <<>>, response |-> <<>>, detail |-> <<>>]
    ELSE generate_from_flavor_request(
             b,
             [cluster_name |-> a.cluster_name, site |-> a.site,
              dns_domain |-> IF a.dns_domain # "" THEN a.dns_domain
                             ELSE SETTINGS_DEFAULT_DNS_DOMAIN]
             @@ ClusterFlavor_to_dict(get_flavor(table, a.flavor_name)[1]),
             files, cache)

(***************************************************************************)
(* The values the calls are made with.                                     *)
(***************************************************************************)
ACME == <<"a", "c", "m", "e">>

ClusterNames == {<<"c", "1">>, <<"a">>}

SupportedVendorConfigs ==
    {[vendor |-> DELL, number_of_nodes |-> 1, infra_env_name |-> "dell-env"],
     [vendor |-> CISCO, number_of_nodes |-> 10, infra_env_name |-> "cisco-env"]}

RequestVendorConfigs ==
    SupportedVendorConfigs
    \cup {[vendor |-> ACME, number_of_nodes |-> 2, infra_env_name |-> "acme-env"]}

\* The non-empty sequences over S of length at most n.
SeqsUpTo(S, n) == UNION {[1..k -> S] : k \in 1..n}

\* custom_configs as a caller writes them: surrounding blanks, a blank entry.
GeneratorCustomConfigs ==
    {<<>>, <<<<" ", "z", "-", "m", "c", " ">>, <<" ">>, <<"a", "-", "m", "c">>>>}

Args(vendor_config_lists) ==
    [cluster_name : ClusterNames,
     site : {"dc1"},
     vendor_configs : vendor_config_lists,
     ocp_version : {"4.15", "4.16"},
     dns_domain : {"prod.company.com"},
     max_pods : {STANDARD, HIGH_DENSITY},
     include_var_lib_containers : BOOLEAN,
     include_ringsize : BOOLEAN,
     custom_configs : GeneratorCustomConfigs]

CallArgs == Args(SeqsUpTo(RequestVendorConfigs, MaxVendorConfigs))

\* Direct calls that sweep number_of_nodes over its whole range and one value
\* on either side of it, alone and next to a second vendor_config.
ReplicaArgs ==
    LET vc(v, n) == [vendor |-> v, number_of_nodes |-> n, infra_env_name |-> "env"]
    IN  [cluster_name : {<<"c", "1">>},
         site : {"dc1"},
         vendor_configs :
             {<<vc(DELL, n)>> : n \in (NUMBER_OF_NODES_GE - 1)..(NUMBER_OF_NODES_LE + 1)}
             \cup {<<vc(CISCO, n), vc(DELL, NUMBER_OF_NODES_LE + 1 - n)>> :
                       n \in NUMBER_OF_NODES_GE..NUMBER_OF_NODES_LE},
         ocp_version : {"4.16"},
         dns_domain : {"prod.company.com"},
         max_pods : {STANDARD},
         include_var_lib_containers : {FALSE},
         include_ringsize : {FALSE},
         custom_configs : {<<>>}]

NoFlavors == [disk |-> <<>>, cache |-> <<>>]

\* No repository: the repository path has no .git directory.
NoRepo ==
    [exists |-> FALSE, branches |-> {}, current |-> <<>>, born |-> FALSE,
     dirty |-> FALSE, origin |-> FALSE, committed |-> {}, pushed |-> {}]

NoCall ==
    [kind |-> "none", args |-> <<>>, input |-> <<>>, raised |-> "",
     config |-> <<>>, response |-> <<>>, detail |-> <<>>]

\* The arguments of a ConfigListBuilder call.
ConfigVendors == {DELL, CISCO, DELL_DATA}

ConfigCustomNames ==
    {<<" ">>, <<" ", "a", "-", "m", "c", " ">>, <<"z", "-", "m", "c">>,
     VAR_LIB_CONTAINERS, <<" ">> \o WORKERS_CHRONY}

ConfigArgs ==
    [cluster_name : ClusterNames,
     vendors : SeqsUpTo(ConfigVendors, MaxVendorConfigs),
     max_pods : {STANDARD, HIGH_DENSITY},
     include_var_lib_containers : BOOLEAN,
     include_ringsize : BOOLEAN,
     custom_configs : {<<>>} \cup SeqsUpTo(ConfigCustomNames, MaxCustomConfigs)]

NoCfg == [op |-> "none", args |-> <<>>, vendor |-> <<>>, result |-> <<>>]

\* No generate() call is in progress on another thread.
NoThreads == <<>>

\* No text has been returned.
NoYaml == [text |-> <<>>, loaded |-> <<>>]

\* The arguments of a generate_yaml call: names, sites, environment names and
\* custom configs that YAML reads as an int, a null or a bool when unquoted,
\* next to ones it reads as strings.
YamlVendorConfigs ==
    {[vendor |-> DELL, number_of_nodes |-> 1, infra_env_name |-> "dell-env"],
     [vendor |-> CISCO, number_of_nodes |-> 10, infra_env_name |-> "007"]}

YamlArgs ==
    [cluster_name : {<<"a">>, <<"n", "o">>},
     site : {"dc1", "null"},
     vendor_configs : SeqsUpTo(YamlVendorConfigs, MaxVendorConfigs),
     ocp_version : {"4.15", "4.16"},
     dns_domain : {"prod.company.com"},
     max_pods : {STANDARD},
     include_var_lib_containers : {FALSE},
     include_ringsize : BOOLEAN,
     custom_configs : {<<>>, <<<<"1", "0">>, <<"a", "-", "m", "c">>>>}]

(***************************************************************************)
(* generators/cluster_builder.py: ClusterConfigGenerator.generate_yaml     *)
(* config.model_dump(by_alias=True, exclude_none=True), then               *)
(* yaml.dump(config_dict, default_flow_style=False, allow_unicode=True,    *)
(*           sort_keys=False, indent=2).                                   *)
(*                                                                         *)
(* The dumped dict is a tree: a mapping is a list of <<key, node>> pairs   *)
(* in insertion order, a sequence a list of nodes, a scalar a str or an    *)
(* int.  The YAML text is a list of lines, each a list of characters.      *)
(***************************************************************************)
\* The characters of the strings the model otherwise only stores and copies.
chars(a) ==
    CASE a = "agent" ->
               <<"a", "g", "e", "n", "t">>
      [] a = "inventory" ->
               <<"i", "n", "v", "e", "n", "t", "o", "r", "y">>
      [] a = "infraenvs.agent-install.openshift.io" ->
               <<"i", "n", "f", "r", "a", "e", "n", "v", "s", ".", "a", "g", "e",
               "n", "t", "-", "i", "n", "s", "t", "a", "l", "l", ".", "o", "p",
               "e", "n", "s", "h", "i", "f", "t", ".", "i", "o">>
      [] a = "dc1" ->
               <<"d", "c", "1">>
      [] a = "dc2" ->
               <<"d", "c", "2">>
      [] a = "null" ->
               <<"n", "u", "l", "l">>
      [] a = "prod.company.com" ->
               <<"p", "r", "o", "d", ".", "c", "o", "m", "p", "a", "n", "y", ".",
               "c", "o", "m">>
      [] a = "lab.company.com" ->
               <<"l", "a", "b", ".", "c", "o", "m", "p", "a", "n", "y", ".", "c",
               "o", "m">>
      [] a = "example.company.com" ->
               <<"e", "x", "a", "m", "p", "l", "e", ".", "c", "o", "m", "p", "a",
               "n", "y", ".", "c", "o", "m">>
      [] a = "dell-env" ->
               <<"d", "e", "l", "l", "-", "e", "n", "v">>
      [] a = "cisco-env" ->
               <<"c", "i", "s", "c", "o", "-", "e", "n", "v">>
      [] a = "acme-env" ->
               <<"a", "c", "m", "e", "-", "e", "n", "v">>
      [] a = "env" ->
               <<"e", "n", "v">>
      [] a = "007" ->
               <<"0", "0", "7">>
      [] a = "quay.io/openshift-release-dev/ocp-release" ->
               <<"q", "u", "a", "y", ".", "i", "o", "/", "o", "p", "e", "n", "s",
               "h", "i", "f", "t", "-", "r", "e", "l", "e", "a", "s", "e", "-",
               "d", "e", "v", "/", "o", "c", "p", "-", "r", "e", "l", "e", "a",
               "s", "e">>
      [] a = "quay.io/openshift-release-dev/ocp-v4.0-art-dev" ->
               <<"q", "u", "a", "y", ".", "i", "o", "/", "o", "p", "e", "n", "s",
               "h", "i", "f", "t", "-", "r", "e", "l", "e", "a", "s", "e", "-",
               "d", "e", "v", "/", "o", "c", "p", "-", "v", "4", ".", "0", "-",
               "a", "r", "t", "-", "d", "e", "v">>
      [] a = "registry.local/ocp415/release" ->
               <<"r", "e", "g", "i", "s", "t", "r", "y", ".", "l", "o", "c", "a",
               "l", "/", "o", "c", "p", "4", "1", "5", "/", "r", "e", "l", "e",
               "a", "s", "e">>
      [] a = "registry.local/ocp416/release" ->
               <<"r", "e", "g", "i", "s", "t", "r", "y", ".", "l", "o", "c", "a",
               "l", "/", "o", "c", "p", "4", "1", "6", "/", "r", "e", "l", "e",
               "a", "s", "e">>
      [] a = "registry.local/ocp416/art-dev" ->
               <<"r", "e", "g", "i", "s", "t", "r", "y", ".", "l", "o", "c", "a",
               "l", "/", "o", "c", "p", "4", "1", "6", "/", "a", "r", "t", "-",
               "d", "e", "v">>
      [] a = "mirror2.local/art-dev" ->
               <<"m", "i", "r", "r", "o", "r", "2", ".", "l", "o", "c", "a", "l",
               "/", "a", "r", "t", "-", "d", "e", "v">>

\* The nodes of a dumped dict.
StrNode(c) == [t |-> "str", chars |-> c]
IntNode(n) == [t |-> "int", n |-> n]
SeqNode(items) == [t |-> "seq", items |-> items]
MapNode(items) == [t |-> "map", items |-> items]

\* The field names of the models, as dict keys.
K ==
    [clusterName |-> <<"c", "l", "u", "s", "t", "e", "r", "N", "a", "m", "e">>,
     platform |-> <<"p", "l", "a", "t", "f", "o", "r", "m">>,
     hostInventory |-> <<"h", "o", "s", "t", "I", "n", "v", "e", "n", "t", "o", "r", "y">>,
     nodepool |-> <<"n", "o", "d", "e", "p", "o", "o", "l">>,
     mcFiles |-> <<"m", "c", "F", "i", "l", "e", "s">>,
     dns |-> <<"d", "n", "s">>,
     imageContentSources |-> <<"i", "m", "a", "g", "e", "C", "o", "n", "t", "e", "n", "t", "S", "o", "u", "r", "c", "e", "s">>,
     name |-> <<"n", "a", "m", "e">>,
     replicas |-> <<"r", "e", "p", "l", "i", "c", "a", "s">>,
     labels |-> <<"l", "a", "b", "e", "l", "s">>,
     agentLabelSelector |-> <<"a", "g", "e", "n", "t", "L", "a", "b", "e", "l", "S", "e", "l", "e", "c", "t", "o", "r">>,
     config |-> <<"c", "o", "n", "f", "i", "g">>,
     maxReplicas |-> <<"m", "a", "x", "R", "e", "p", "l", "i", "c", "a", "s">>,
     minReplicas |-> <<"m", "i", "n", "R", "e", "p", "l", "i", "c", "a", "s">>,
     nodeLabelKey |-> <<"n", "o", "d", "e", "L", "a", "b", "e", "l", "K", "e", "y">>,
     nodeLabelValue |-> <<"n", "o", "d", "e", "L", "a", "b", "e", "l", "V", "a", "l", "u", "e">>,
     site |-> <<"s", "i", "t", "e">>,
     zone |-> <<"z", "o", "n", "e">>,
     source |-> <<"s", "o", "u", "r", "c", "e">>,
     mirrors |-> <<"m", "i", "r", "r", "o", "r", "s">>]

\* NodePool.model_dump(): the fields in declaration order.
NodePool_model_dump(np) ==
    MapNode(<<
        <<K.name, StrNode(np.name)>>,
        <<K.replicas, IntNode(np.replicas)>>,
        <<K.labels, MapNode(<<<<K.maxReplicas, StrNode(np.labels.maxReplicas)>>,
                              <<K.minReplicas, StrNode(np.labels.minReplicas)>>>>)>>,
        <<K.agentLabelSelector,
          MapNode(<<<<K.nodeLabelKey, StrNode(chars(np.agentLabelSelector.nodeLabelKey))>>,
                    <<K.nodeLabelValue,
                      StrNode(chars(np.agentLabelSelector.nodeLabelValue))>>>>)>>,
        <<K.config, SeqNode([i \in 1..Len(np.config) |->
                                MapNode(<<<<K.name, StrNode(np.config[i].name)>>>>)])>>
    >>)

ImageContentSource_model_dump(ics) ==
    MapNode(<<
        <<K.source, StrNode(chars(ics.source))>>,
        <<K.mirrors, SeqNode([i \in 1..Len(ics.mirrors) |-> StrNode(chars(ics.mirrors[i]))])>>
    >>)

\* ClusterConfig.model_dump(by_alias=True, exclude_none=True): the fields in
\* declaration order; no field of a built ClusterConfig is None.
model_dump(config) ==
    MapNode(<<
        <<K.clusterName, StrNode(config.clusterName)>>,
        <<K.platform, StrNode(chars(config.platform))>>,
        <<K.hostInventory, StrNode(chars(config.hostInventory))>>,
        <<K.nodepool, SeqNode([i \in 1..Len(config.nodepool) |->
                                  NodePool_model_dump(config.nodepool[i])])>>,
        <<K.mcFiles, SeqNode([i \in 1..Len(config.mcFiles) |->
                                 StrNode(config.mcFiles[i])])>>,
        <<K.dns, MapNode(<<<<K.site, StrNode(chars(config.dns.site))>>,
                           <<K.zone, StrNode(chars(config.dns.zone))>>>>)>>,
        <<K.imageContentSources,
          SeqNode([i \in 1..Len(config.imageContentSources) |->
                      ImageContentSource_model_dump(config.imageContentSources[i])])>>
    >>)

\* yaml: how a plain (unquoted) scalar is resolved when the text is read.
\* An int is 0, a decimal without leading 0, or a 0-led octal; the words are
\* the lower-case spellings of null and of the booleans.
IsYamlInt(c) ==
    /\ c # <<>>
    /\ \A i \in 1..Len(c) : c[i] \in {"0", "1", "2", "3", "4", "5", "6", "7", "8", "9"}
    /\ \/ Len(c) = 1
       \/ c[1] # "0"
       \/ \A i \in 1..Len(c) : c[i] \in {"0", "1", "2", "3", "4", "5", "6", "7"}

YamlNullWords == {<<"n", "u", "l", "l">>, <<"~">>, <<>>}

YamlBoolWords ==
    {<<"t", "r", "u", "e">>, <<"f", "a", "l", "s", "e">>, <<"y", "e", "s">>,
     <<"n", "o">>, <<"o", "n">>, <<"o", "f", "f">>}

resolve(c) ==
    IF IsYamlInt(c) THEN "int"
    ELSE IF c \in YamlNullWords THEN "null"
    ELSE IF c \in YamlBoolWords THEN "bool"
    ELSE "str"

\* Characters that cannot start a plain scalar.
YamlIndicators ==
    {"-", "?", ":", ",", "[", "]", "{", "}", "#", "&", "*", "!", "|", ">", "'",
     "%", "@"}

\* yaml.dump writes a str plain when the plain text reads back as that str,
\* and in single quotes otherwise.
plain_allowed(c) ==
    /\ resolve(c) = "str"
    /\ c[1] \notin YamlIndicators \cup Whitespace
    /\ c[Len(c)] \notin Whitespace

\* The text between single quotes: a quote is written twice.
RECURSIVE single_quoted(_)
single_quoted(c) ==
    IF c = <<>> THEN <<>>
    ELSE (IF Head(c) = "'" THEN <<"'", "'">> ELSE <<Head(c)>>) \o single_quoted(Tail(c))

\* A str is written in single quotes only where it starts with a quote.
scalar_text_plain(node) ==
    IF node.t = "int" THEN str(node.n)
    ELSE IF node.chars # <<>> /\ node.chars[1] # "'" THEN node.chars
    ELSE <<"'">> \o single_quoted(node.chars) \o <<"'">>

scalar_text(node) ==
    IF node.t = "int" THEN str(node.n)
    ELSE IF plain_allowed(node.chars) THEN node.chars
    ELSE <<"'">> \o single_quoted(node.chars) \o <<"'">>

spaces(n) == [i \in 1..n |-> " "]

RECURSIVE Flatten(_)
Flatten(ss) == IF ss = <<>> THEN <<>> ELSE Head(ss) \o Flatten(Tail(ss))

\* The lines of a mapping or a sequence in block style at an indent: a
\* sequence that is the value of a key stays at the indent of the key, a
\* mapping that is the value of a key is indented by 2, an item of a sequence
\* carries "- " in front of its first line.
RECURSIVE represent(_, _)
represent(node, indent) ==
    IF node.t = "map"
    THEN Flatten([i \in 1..Len(node.items) |->
             LET k == node.items[i][1]
                 v == node.items[i][2]
             IN  IF v.t \in {"str", "int"}
                 THEN <<spaces(indent) \o k \o <<":", " ">> \o scalar_text(v)>>
                 ELSE IF v.items = <<>>
                 THEN <<spaces(indent) \o k \o <<":", " ">>
                        \o (IF v.t = "seq" THEN <<"[", "]">> ELSE <<"{", "}">>)>>
                 ELSE <<spaces(indent) \o k \o <<":">>>>
                      \o represent(v, IF v.t = "seq" THEN indent ELSE indent + 2)])
    ELSE Flatten([i \in 1..Len(node.items) |->
             LET v == node.items[i]
             IN  IF v.t \in {"str", "int"}
                 THEN <<spaces(indent) \o <<"-", " ">> \o scalar_text(v)>>
                 ELSE <<spaces(indent) \o <<"-", " ">>
                        \o SubSeq(represent(v, indent + 2)[1], indent + 3,
                                  Len(represent(v, indent + 2)[1]))>>
                      \o Tail(represent(v, indent + 2))])

\* yaml.dump with sort_keys=True: the top-level keys in sorted order.
yaml_dump_sort_keys(config_dict) ==
    LET keys == sorted({config_dict.items[i][1] : i \in 1..Len(config_dict.items)})
    IN  represent(MapNode([k \in 1..Len(keys) |->
                              config_dict.items[CHOOSE i \in 1..Len(config_dict.items) :
                                                    config_dict.items[i][1] = keys[k]]]),
                  0)

\* yaml.dump(config_dict, default_flow_style=False, sort_keys=False, indent=2)
yaml_dump(config_dict) == represent(config_dict, 0)

(***************************************************************************)
(* Reading a document back: yaml.safe_load(text), then the ClusterConfig   *)
(* constructor on the loaded dict, for the block style yaml.dump writes.   *)
(***************************************************************************)
\* The number of blanks a line starts with.
indent_of(line) ==
    CHOOSE n \in 0..Len(line) :
        /\ \A i \in 1..n : line[i] = " "
        /\ n = Len(line) \/ line[n + 1] # " "

\* The text between the single quotes of a quoted scalar: '' is a quote.
RECURSIVE unquoted(_)
unquoted(c) ==
    IF c = <<>> THEN <<>>
    ELSE IF Len(c) >= 2 /\ c[1] = "'" /\ c[2] = "'"
    THEN <<"'">> \o unquoted(SubSeq(c, 3, Len(c)))
    ELSE <<Head(c)>> \o unquoted(Tail(c))

\* The int a plain scalar of digits reads as: octal when it starts with 0.
RECURSIVE construct_yaml_int(_, _)
construct_yaml_int(c, base) ==
    IF c = <<>> THEN 0
    ELSE DigitValue(c[Len(c)]) + base * construct_yaml_int(SubSeq(c, 1, Len(c) - 1), base)

\* The value of a scalar as written: quoted text is a str, [] and {} are
\* the empty collections, plain text is what it resolves to.
construct_scalar(c) ==
    IF c # <<>> /\ c[1] = "'"
    THEN StrNode(unquoted(SubSeq(c, 2, Len(c) - 1)))
    ELSE IF c = <<"[", "]">> THEN SeqNode(<<>>)
    ELSE IF c = <<"{", "}">> THEN MapNode(<<>>)
    ELSE IF resolve(c) = "int"
    THEN IntNode(construct_yaml_int(c, IF Len(c) > 1 /\ c[1] = "0" THEN 8 ELSE 10))
    ELSE IF resolve(c) = "str" THEN StrNode(c)
    ELSE [t |-> resolve(c)]

\* Where the ": " (or ending ":") of a "key: value" line is in the text of
\* the line; 0 when the text is a scalar.
key_end(c) ==
    LET colons == {i \in 1..Len(c) : c[i] = ":" /\ (i = Len(c) \/ c[i + 1] = " ")}
    IN  IF c = <<>> \/ c[1] = "'" \/ colons = {} THEN 0
        ELSE CHOOSE i \in colons : \A j \in colons : i <= j

\* The node a block of lines holds.  The block is a sequence when its first
\* line starts with "- ", else a mapping; an entry starts at each line at
\* the indent of the first one (for a mapping: that does not start with
\* "- ", since the sequence under a key is written at the indent of the key).
RECURSIVE compose_node(_)
compose_node(lines) ==
    LET base == indent_of(lines[1])
        dash(i) == /\ Len(lines[i]) >= base + 2
                   /\ lines[i][base + 1] = "-"
                   /\ lines[i][base + 2] = " "
        starts == {i \in 1..Len(lines) :
                      indent_of(lines[i]) = base /\ (dash(i) <=> dash(1))}
        nth(k) == CHOOSE i \in starts : Cardinality({j \in starts : j < i}) = k - 1
        chunk(k) == SubSeq(lines, nth(k),
                           IF k = Cardinality(starts) THEN Len(lines) ELSE nth(k + 1) - 1)
        item(ch) ==
            LET c == SubSeq(ch[1], base + 3, Len(ch[1]))
            IN  IF Len(ch) = 1 /\ key_end(c) = 0 THEN construct_scalar(c)
                ELSE compose_node(<<spaces(base + 2) \o c>> \o Tail(ch))
        entry(ch) ==
            LET c == SubSeq(ch[1], base + 1, Len(ch[1]))
                p == key_end(c)
            IN  <<SubSeq(c, 1, p - 1),
                  IF p < Len(c) THEN construct_scalar(SubSeq(c, p + 2, Len(c)))
                  ELSE IF Len(ch) = 1 THEN [t |-> "null"]
                  ELSE compose_node(Tail(ch))>>
    IN  IF dash(1)
        THEN SeqNode([k \in 1..Cardinality(starts) |-> item(chunk(k))])
        ELSE MapNode([k \in 1..Cardinality(starts) |-> entry(chunk(k))])

\* yaml.safe_load(text)
safe_load(text) == IF text = <<>> THEN [t |-> "null"] ELSE compose_node(text)

\* The fields of the models of models/cluster.py: key, type, and the default
\* of a field that has one.
ClusterConfigFields ==
    LET StrField(key) == [key |-> key, type |-> [t |-> "str"], default |-> <<>>]
        model(fields) == [t |-> "model", fields |-> fields]
        list(of) == [t |-> "list", of |-> <<of>>]
        field(key, type) == [key |-> key, type |-> type, default |-> <<>>]
        defaulted(key, type, value) == [key |-> key, type |-> type, default |-> <<value>>]
        ConfigItem == model(<<StrField(K.name)>>)
        Labels == model(<<StrField(K.maxReplicas), StrField(K.minReplicas)>>)
        Selector == model(<<defaulted(K.nodeLabelKey, [t |-> "str"],
                                      StrNode(chars(NODE_LABEL_KEY))),
                            StrField(K.nodeLabelValue)>>)
        NodePool == model(<<StrField(K.name),
                            field(K.replicas, [t |-> "int", ge |-> 1]),
                            field(K.labels, Labels),
                            field(K.agentLabelSelector, Selector),
                            field(K.config, list(ConfigItem))>>)
        DNSConfig == model(<<StrField(K.site), StrField(K.zone)>>)
        ImageContentSource == model(<<StrField(K.source),
                                      field(K.mirrors, list([t |-> "str"]))>>)
    IN  <<StrField(K.clusterName),
          defaulted(K.platform, [t |-> "str"], StrNode(chars("agent"))),
          defaulted(K.hostInventory, [t |-> "str"], StrNode(chars("inventory"))),
          field(K.nodepool, list(NodePool)),
          field(K.mcFiles, list([t |-> "str"])),
          field(K.dns, DNSConfig),
          defaulted(K.imageContentSources, list(ImageContentSource), SeqNode(<<>>))>>

\* pydantic validation of a loaded value against a field type: <<>> when it
\* raises ValidationError, else <<the value of the field>>.  A str field
\* takes only a str; an int field takes an int, or a str of decimal digits,
\* within its bound; a list field takes a sequence of valid items; a model
\* takes a mapping that has a valid value for every field without default,
\* and keeps its fields in declaration order.
RECURSIVE validate(_, _)
validate(type, node) ==
    CASE type.t = "str" -> IF node.t = "str" THEN <<node>> ELSE <<>>
      [] type.t = "int" ->
             LET n == IF node.t = "int" THEN <<node.n>>
                      ELSE IF node.t = "str" /\ node.chars # <<>>
                              /\ \A i \in 1..Len(node.chars) : node.chars[i] \in DigitChars
                      THEN <<int(node.chars)>>
                      ELSE <<>>
             IN  IF n # <<>> /\ n[1] >= type.ge THEN <<IntNode(n[1])>> ELSE <<>>
      [] type.t = "list" ->
             IF node.t # "seq" THEN <<>>
             ELSE LET items == [i \in 1..Len(node.items) |->
                                   validate(type.of[1], node.items[i])]
                  IN  IF \E i \in 1..Len(items) : items[i] = <<>> THEN <<>>
                      ELSE <<SeqNode([i \in 1..Len(items) |-> items[i][1]])>>
      [] OTHER ->
             IF node.t # "map" THEN <<>>
             ELSE LET given(f) == {i \in 1..Len(node.items) : node.items[i][1] = f.key}
                      value(f) ==
                          IF given(f) = {} THEN f.default
                          ELSE validate(f.type,
                                        node.items[CHOOSE i \in given(f) :
                                                       \A j \in given(f) : i >= j][2])
                      values == [i \in 1..Len(type.fields) |-> value(type.fields[i])]
                  IN  IF \E i \in 1..Len(values) : values[i] = <<>> THEN <<>>
                      ELSE <<MapNode([i \in 1..Len(values) |->
                                         <<type.fields[i].key, values[i][1]>>])>>

\* ClusterConfig(**yaml.safe_load(text)): [raised, value], the value being
\* the fields of the ClusterConfig as model_dump gives them.
ClusterConfig_load(text) ==
    LET got == validate([t |-> "model", fields |-> ClusterConfigFields], safe_load(text))
    IN  IF got = <<>> THEN [raised |-> "ValidationError", value |-> <<>>]
        ELSE [raised |-> "", value |-> got]

\* generate has returned g: the text of its document, if it returned one.
generate_yaml_dumped(g) ==
    [raised |-> g.raised, b |-> g.b, cache |-> g.cache, config |-> g.config,
     yaml |-> IF g.raised # "" THEN <<>>
              ELSE <<yaml_dump(model_dump(g.config[1]))>>]

\* generate_yaml(input_params): [raised, b, cache, config, yaml]; yaml is <<>>
\* or <<the text>>, config the ClusterConfig the text was dumped from.
generate_yaml(b, input_params, files, cache) ==
    generate_yaml_dumped(generate(b, input_params, files, cache))

(***************************************************************************)
(* Spec: one ClusterConfigGenerator (the one a ClusterService holds) that  *)
(* is called again and again, directly and through the service.  The file  *)
(* 4.16.yaml of the registry exists; 4.15.yaml may be missing.             *)
(***************************************************************************)
Init ==
    /\ builder = _reset
    /\ version_files \in {{"4.16"}, {"4.15", "4.16"}}
    /\ ics_cache = {}
    /\ call = NoCall
    /\ cfg = NoCfg
    /\ threads = NoThreads
    /\ yaml = NoYaml
    /\ flavors = NoFlavors
    /\ repo = NoRepo

\* What a direct call records: generate returned g for the input inp.
GenerateReturns(args, inp, g) ==
    /\ builder' = g.b
    /\ ics_cache' = g.cache
    /\ call' = [kind |-> "generate", args |-> <<args>>, input |-> inp.value,
                raised |-> g.raised, config |-> g.config, response |-> <<>>, detail |-> <<>>]

GenerateCalled(args, inp) ==
    IF inp.raised # ""
    THEN /\ call' = [kind |-> "generate", args |-> <<args>>, input |-> <<>>,
                     raised |-> inp.raised, config |-> <<>>, response |-> <<>>, detail |-> <<>>]
         /\ UNCHANGED <<builder, ics_cache>>
    ELSE GenerateReturns(args, inp,
                         generate(builder, inp.value[1], version_files, ics_cache))

\* generator.generate(ClusterGenerationInput(**args)); when the input model
\* rejects args, generate is not reached.
Generate ==
    \E args \in CallArgs :
        /\ call.kind = "none"
        /\ Len(builder.nodepools) + Len(args.vendor_configs) <= MaxNodepools
        /\ GenerateCalled(args, ClusterGenerationInput(args))
        /\ UNCHANGED <<version_files, cfg, threads, yaml, flavors, repo>>

GenerateClusterReturns(args, s) ==
    /\ builder' = s.b
    /\ ics_cache' = s.cache
    /\ call' = [kind |-> "generate_cluster", args |-> <<args>>,
                input |-> s.input, raised |-> s.raised, config |-> s.config,
                response |-> s.response, detail |-> s.detail]

\* service.generate_cluster(GenerateClusterRequest(**args))
GenerateCluster ==
    \E args \in CallArgs :
        /\ call.kind = "none"
        /\ Len(builder.nodepools) + Len(args.vendor_configs) <= MaxNodepools
        /\ GenerateClusterReturns(
               args, generate_cluster(builder, args, version_files, ics_cache))
        /\ UNCHANGED <<version_files, cfg, threads, yaml, flavors, repo>>

\* The call has returned (a value or an exception) and the caller is done
\* with it; the generator and its builder stay as the call left them.
Return ==
    /\ call.kind # "none"
    /\ call' = NoCall
    /\ UNCHANGED <<builder, version_files, ics_cache, cfg, threads, yaml, flavors, repo>>

Next == Generate \/ GenerateCluster \/ Return

Spec == Init /\ [][Next]_vars

(***************************************************************************)
(* SpecReplicas: direct generate calls on a generator whose registry has   *)
(* both version files, with number_of_nodes swept over its range.          *)
(***************************************************************************)
InitReplicas ==
    /\ builder = _reset
    /\ version_files = {"4.15", "4.16"}
    /\ ics_cache = {}
    /\ call = NoCall
    /\ cfg = NoCfg
    /\ threads = NoThreads
    /\ yaml = NoYaml
    /\ flavors = NoFlavors
    /\ repo = NoRepo

GenerateReplicas ==
    \E args \in ReplicaArgs :
        /\ call.kind = "none"
        /\ GenerateCalled(args, ClusterGenerationInput(args))
        /\ UNCHANGED <<version_files, cfg, threads, yaml, flavors, repo>>

NextReplicas == GenerateReplicas \/ Return

SpecReplicas == InitReplicas /\ [][NextReplicas]_vars

(***************************************************************************)
(* SpecConfig: the pure list builders of ConfigListBuilder, applied to     *)
(* every combination of the drawn arguments.                               *)
(***************************************************************************)
InitConfig ==
    /\ builder = _reset
    /\ version_files = {}
    /\ ics_cache = {}
    /\ call = NoCall
    /\ threads = NoThreads
    /\ yaml = NoYaml
    /\ flavors = NoFlavors
    /\ repo = NoRepo
    /\ cfg \in {[op |-> "args", args |-> <<a>>, vendor |-> <<>>, result |-> <<>>] :
                   a \in ConfigArgs}

\* ConfigListBuilder.build_for_nodepool for one of the vendors
BuildForNodepool ==
    \E i \in 1..Len(cfg.args[1].vendors) :
        LET a == cfg.args[1]
        IN  /\ cfg' = [op |-> "build_for_nodepool", args |-> cfg.args,
                       vendor |-> a.vendors[i],
                       result |-> build_for_nodepool(
                                      a.cluster_name, a.vendors[i], a.max_pods,
                                      a.include_var_lib_containers,
                                      a.include_ringsize, a.custom_configs)]
            /\ UNCHANGED <<builder, version_files, ics_cache, call, threads, yaml, flavors, repo>>

\* ConfigListBuilder.build_mc_files for the whole vendor list
BuildMcFiles ==
    LET a == cfg.args[1]
    IN  /\ cfg' = [op |-> "build_mc_files", args |-> cfg.args, vendor |-> <<>>,
                   result |-> build_mc_files(
                                  a.cluster_name, a.vendors, a.max_pods,
                                  a.include_var_lib_containers,
                                  a.include_ringsize, a.custom_configs)]
        /\ UNCHANGED <<builder, version_files, ics_cache, call, threads, yaml, flavors, repo>>

NextConfig == BuildForNodepool \/ BuildMcFiles

SpecConfig == InitConfig /\ [][NextConfig]_vars

(***************************************************************************)
(* SpecConcurrent: two threads call generate() on the one generator of a   *)
(* ClusterService, each with its own input.  A thread runs the builder     *)
(* calls of generate in program order; between two builder calls the other *)
(* thread may run.  Nothing in generate or in the service takes a lock.    *)
(* Both registry files exist.                                              *)
(***************************************************************************)
\* The inputs of the two calls.
ConcurrentInputs ==
    {[cluster_name |-> <<"a">>, site |-> "dc1",
      vendor_configs |-> <<[vendor |-> DELL, number_of_nodes |-> 1,
                            infra_env_name |-> "dell-env"]>>,
      ocp_version |-> "4.16", dns_domain |-> "prod.company.com",
      max_pods |-> STANDARD, include_var_lib_containers |-> FALSE,
      include_ringsize |-> FALSE, custom_configs |-> <<>>],
     [cluster_name |-> <<"c", "1">>, site |-> "dc2",
      vendor_configs |-> <<[vendor |-> CISCO, number_of_nodes |-> 10,
                            infra_env_name |-> "cisco-env"],
                           [vendor |-> DELL, number_of_nodes |-> 2,
                            infra_env_name |-> "dell-env"]>>,
      ocp_version |-> "4.15", dns_domain |-> "lab.company.com",
      max_pods |-> HIGH_DENSITY, include_var_lib_containers |-> TRUE,
      include_ringsize |-> TRUE, custom_configs |-> <<<<"a", "-", "m", "c">>>>]}

\* A thread that is about to enter generate(input_params).
ThreadAt(input_params) ==
    [pc |-> "set_cluster_name", input |-> input_params, k |-> 1, raised |-> "",
     config |-> <<>>]

\* The thread has left generate: it returned config or raised.
ThreadLeft(th, raised, config) ==
    [th EXCEPT !.pc = "returned", !.raised = raised, !.config = config]

\* The next builder call of generate for the thread th, on the shared
\* builder b: [b, cache, th] after the call.
generate_step(b, th, files, cache) ==
    LET inp == th.input
    IN  CASE th.pc = "set_cluster_name" ->
                 [b |-> set_cluster_name(b, inp.cluster_name), cache |-> cache,
                  th |-> [th EXCEPT !.pc = "set_site"]]
          [] th.pc = "set_site" ->
                 [b |-> set_site(b, inp.site), cache |-> cache,
                  th |-> [th EXCEPT !.pc = "set_dns_domain"]]
          [] th.pc = "set_dns_domain" ->
                 [b |-> set_dns_domain(b, inp.dns_domain), cache |-> cache,
                  th |-> [th EXCEPT !.pc = "set_max_pods"]]
          [] th.pc = "set_max_pods" ->
                 [b |-> set_max_pods(b, inp.max_pods), cache |-> cache,
                  th |-> [th EXCEPT !.pc = "add_nodepool"]]
          [] th.pc = "add_nodepool" ->
                 LET vc == inp.vendor_configs[th.k]
                     r == add_nodepool(b, vc.vendor, vc.number_of_nodes,
                                       vc.infra_env_name,
                                       inp.include_var_lib_containers,
                                       inp.include_ringsize, inp.custom_configs)
                 IN  [b |-> r.b, cache |-> cache,
                      th |-> IF r.raised # "" THEN ThreadLeft(th, r.raised, <<>>)
                             ELSE IF th.k < Len(inp.vendor_configs)
                             THEN [th EXCEPT !.k = th.k + 1]
                             ELSE [th EXCEPT !.pc = "set_mc_files"]]
          [] th.pc = "set_mc_files" ->
                 LET r == set_mc_files(b,
                                       [i \in 1..Len(inp.vendor_configs) |->
                                           inp.vendor_configs[i].vendor],
                                       inp.include_var_lib_containers,
                                       inp.include_ringsize, inp.custom_configs)
                 IN  [b |-> r.b, cache |-> cache,
                      th |-> IF r.raised # "" THEN ThreadLeft(th, r.raised, <<>>)
                             ELSE [th EXCEPT !.pc = "set_image_content_sources"]]
          [] th.pc = "set_image_content_sources" ->
                 LET r == set_image_content_sources(b, inp.ocp_version, files, cache)
                 IN  [b |-> r.b, cache |-> r.cache,
                      th |-> IF r.raised # "" THEN ThreadLeft(th, r.raised, <<>>)
                             ELSE [th EXCEPT !.pc = "build"]]
          [] th.pc = "build" ->
                 LET r == build(b)
                 IN  [b |-> r.b, cache |-> cache,
                      th |-> ThreadLeft(th, r.raised, r.config)]

InitConcurrent ==
    /\ builder = _reset
    /\ version_files = {"4.15", "4.16"}
    /\ ics_cache = {}
    /\ call = NoCall
    /\ cfg = NoCfg
    /\ yaml = NoYaml
    /\ flavors = NoFlavors
    /\ repo = NoRepo
    /\ threads \in {<<ThreadAt(p[1]), ThreadAt(p[2])>> :
                        p \in {q \in ConcurrentInputs \X ConcurrentInputs :
                                   q[1] # q[2]}}

ThreadStepped(t, s) ==
    /\ builder' = s.b
    /\ ics_cache' = s.cache
    /\ threads' = [threads EXCEPT ![t] = s.th]

\* One thread makes its next builder call.
ThreadStep ==
    \E t \in 1..Len(threads) :
        /\ threads[t].pc # "returned"
        /\ ThreadStepped(t, generate_step(builder, threads[t], version_files, ics_cache))
        /\ UNCHANGED <<version_files, call, cfg, yaml, flavors, repo>>

NextConcurrent == ThreadStep

SpecConcurrent == InitConcurrent /\ [][NextConcurrent]_vars

(***************************************************************************)
(* SpecYaml: generate_yaml is called again and again on one generator with *)
(* valid inputs; both registry files exist, so every call returns a text.  *)
(***************************************************************************)
InitYaml ==
    /\ builder = _reset
    /\ version_files = {"4.15", "4.16"}
    /\ ics_cache = {}
    /\ call = NoCall
    /\ cfg = NoCfg
    /\ threads = NoThreads
    /\ yaml = NoYaml
    /\ flavors = NoFlavors
    /\ repo = NoRepo

GenerateYamlReturns(args, inp, r) ==
    /\ builder' = r.b
    /\ ics_cache' = r.cache
    /\ call' = [kind |-> "generate_yaml", args |-> <<args>>, input |-> inp.value,
                raised |-> r.raised, config |-> r.config, response |-> <<>>, detail |-> <<>>]
    /\ yaml' = [text |-> r.yaml, loaded |-> <<>>]

GenerateYamlCalled(args, inp) ==
    /\ inp.raised = ""
    /\ GenerateYamlReturns(args, inp,
                           generate_yaml(builder, inp.value[1], version_files, ics_cache))

\* generator.generate_yaml(ClusterGenerationInput(**args))
GenerateYaml ==
    \E args \in YamlArgs :
        /\ call.kind = "none"
        /\ Len(builder.nodepools) + Len(args.vendor_configs) <= MaxNodepools
        /\ GenerateYamlCalled(args, ClusterGenerationInput(args))
        /\ UNCHANGED <<version_files, cfg, threads, flavors, repo>>

\* The caller is done with the text.
ReturnYaml ==
    /\ call.kind = "generate_yaml"
    /\ call' = NoCall
    /\ yaml' = NoYaml
    /\ UNCHANGED <<builder, version_files, ics_cache, cfg, threads, flavors, repo>>

\* The caller parses the text back into the ClusterConfig model.
LoadYaml ==
    /\ call.kind = "generate_yaml"
    /\ yaml.text # <<>>
    /\ yaml.loaded = <<>>
    /\ yaml' = [yaml EXCEPT !.loaded = <<ClusterConfig_load(yaml.text[1])>>]
    /\ UNCHANGED <<builder, version_files, ics_cache, call, cfg, threads, flavors, repo>>

NextYaml == GenerateYaml \/ LoadYaml \/ ReturnYaml

SpecYaml == InitYaml /\ [][NextYaml]_vars

(***************************************************************************)
(* SpecService: the three generating calls of one ClusterService, whose    *)
(* requests name unsupported vendors, cluster names that the conversion    *)
(* rejects and versions without a version file.                            *)
(***************************************************************************)
HP == <<"h", "p">>

ServiceVendorConfigs ==
    RequestVendorConfigs
    \cup {[vendor |-> HP, number_of_nodes |-> 3, infra_env_name |-> "env"]}

ServiceArgs ==
    [cluster_name : {<<"a">>, <<"1", "2">>},
     site : {"dc1", "dc2"},
     vendor_configs : SeqsUpTo(ServiceVendorConfigs, MaxVendorConfigs),
     ocp_version : {"4.15", "4.16"},
     dns_domain : {"prod.company.com", ""},
     max_pods : {STANDARD},
     include_var_lib_containers : {FALSE},
     include_ringsize : {FALSE},
     custom_configs : {<<>>}]

\* The files of the flavors directory, in sorted order.
FlavorFiles ==
    LET flavor(vendors, version, pods) ==
            [vendors |-> vendors, ocp_version |-> version, max_pods |-> pods,
             include_var_lib_containers |-> FALSE, include_ringsize |-> FALSE,
             custom_configs |-> <<>>]
    IN  <<[stem |-> "empty", data |-> <<>>],
          [stem |-> "mixed",
           data |-> <<flavor(<<[vendor |-> HP, nodes |-> 1, infra_env |-> <<>>],
                               [vendor |-> ACME, nodes |-> 2, infra_env |-> <<"acme-env">>]>>,
                             "4.15", HIGH_DENSITY)>>],
          [stem |-> "nonodes",
           data |-> <<flavor(<<[vendor |-> ACME, nodes |-> 0, infra_env |-> <<>>]>>,
                             "4.16", STANDARD)>>],
          [stem |-> "small",
           data |-> <<flavor(<<[vendor |-> DELL, nodes |-> 3, infra_env |-> <<"dell-env">>]>>,
                             "4.16", STANDARD)>>]>>

FlavorArgs ==
    [flavor_name : {"empty", "mixed", "nonodes", "small"},
     cluster_name : {<<"a">>, <<"1", "2">>},
     site : {"dc1"},
     dns_domain : {"", "lab.company.com"}]

InitService ==
    /\ builder = _reset
    /\ version_files \in {{"4.16"}, {"4.15", "4.16"}}
    /\ ics_cache = {}
    /\ call = NoCall
    /\ cfg = NoCfg
    /\ threads = NoThreads
    /\ yaml = NoYaml
    /\ flavors = [disk |-> FlavorFiles, cache |-> <<>>]
    /\ repo = NoRepo

\* What a service call records.
ServiceReturns(kind, args, request, s) ==
    /\ builder' = s.b
    /\ ics_cache' = s.cache
    /\ call' = [kind |-> kind, args |-> <<args>>, request |-> request,
                input |-> s.input, raised |-> s.raised, config |-> s.config,
                response |-> s.response, detail |-> s.detail]

\* service.generate_cluster(GenerateClusterRequest(**args))
ServiceGenerateCluster ==
    \E args \in ServiceArgs :
        /\ call.kind = "none"
        /\ Len(builder.nodepools) + Len(args.vendor_configs) <= MaxNodepools
        /\ ServiceReturns("generate_cluster", args, <<args>>,
                          generate_cluster(builder, args, version_files, ics_cache))
        /\ UNCHANGED <<version_files, cfg, threads, yaml, flavors, repo>>

\* service.preview_cluster(PreviewClusterRequest(**args))
PreviewCluster ==
    \E args \in ServiceArgs :
        /\ call.kind = "none"
        /\ Len(builder.nodepools) + Len(args.vendor_configs) <= MaxNodepools
        /\ ServiceReturns("preview_cluster", args, <<args>>,
                          preview_cluster(builder, args, version_files, ics_cache))
        /\ UNCHANGED <<version_files, cfg, threads, yaml, flavors, repo>>

\* The GenerateClusterRequest generate_from_flavor builds: <<>> when the
\* flavor is not found or the request does not validate.
flavor_request(table, a) ==
    IF get_flavor(table, a.flavor_name) = <<>> THEN <<>>
    ELSE LET request ==
                 [cluster_name |-> a.cluster_name, site |-> a.site,
                  dns_domain |-> IF a.dns_domain # "" THEN a.dns_domain
                                 ELSE SETTINGS_DEFAULT_DNS_DOMAIN]
                 @@ ClusterFlavor_to_dict(get_flavor(table, a.flavor_name)[1])
         IN  IF GenerateClusterRequest_valid(request) THEN <<request>> ELSE <<>>

GenerateFromFlavorCalled(args, got) ==
    /\ flavors' = got.f
    /\ ServiceReturns("generate_from_flavor", args, flavor_request(got.table, args),
                      generate_from_flavor(builder, got.table, args,
                                           version_files, ics_cache))

\* service.generate_from_flavor(**args)
GenerateFromFlavor ==
    \E args \in FlavorArgs :
        /\ call.kind = "none"
        /\ Len(builder.nodepools) + 2 <= MaxNodepools
        /\ GenerateFromFlavorCalled(args, _get_flavors_cache(flavors))
        /\ UNCHANGED <<version_files, cfg, threads, yaml, repo>>

NextService == ServiceGenerateCluster \/ PreviewCluster \/ GenerateFromFlavor \/ Return

SpecService == InitService /\ [][NextService]_vars

(***************************************************************************)
(* SpecRegistry: registry lookups of one DefaultsManager, directly and     *)
(* from ClusterBuilder.set_image_content_sources, for supported and        *)
(* unsupported versions, over registry directories in which a version has  *)
(* no file, a file with mirror data, or a file without the key.            *)
(***************************************************************************)
RegistryVersions == {"4.14", "4.15", "4.16"}

RegistryDirectories ==
    {a \cup b : a \in {{}, {"4.15"}, {NoKeyFile("4.15")}},
                b \in {{}, {"4.16"}, {NoKeyFile("4.16")}}}

InitRegistry ==
    /\ builder = _reset
    /\ version_files \in RegistryDirectories
    /\ ics_cache = {}
    /\ call = NoCall
    /\ cfg = NoCfg
    /\ threads = NoThreads
    /\ yaml = NoYaml
    /\ flavors = NoFlavors
    /\ repo = NoRepo

\* defaults_manager.get_image_content_sources(version)
GetImageContentSources ==
    \E version \in RegistryVersions :
        LET got == get_image_content_sources(version, version_files, ics_cache)
        IN  /\ call.kind = "none"
            /\ ics_cache' = got.cache
            /\ call' = [kind |-> "get_image_content_sources", args |-> <<version>>,
                        raised |-> got.raised, sources |-> got.sources]
            /\ UNCHANGED <<builder, version_files, cfg, threads, yaml, flavors, repo>>

\* builder.set_image_content_sources(version)
SetImageContentSources ==
    \E version \in RegistryVersions :
        LET r == set_image_content_sources(builder, version, version_files, ics_cache)
        IN  /\ call.kind = "none"
            /\ builder' = r.b
            /\ ics_cache' = r.cache
            /\ call' = [kind |-> "set_image_content_sources", args |-> <<version>>,
                        raised |-> r.raised,
                        sources |-> r.b.image_content_sources]
            /\ UNCHANGED <<version_files, cfg, threads, yaml, flavors, repo>>

NextRegistry == GetImageContentSources \/ SetImageContentSources \/ Return

SpecRegistry == InitRegistry /\ [][NextRegistry]_vars

(***************************************************************************)
(* SpecReload: reload_flavors and two readers (get_flavor, list_flavors)   *)
(* as threads over the one lru_cache of _get_flavors_cache.  A call that   *)
(* misses loads the directory into a dict of its own and stores it in a    *)
(* later step; lru_cache holds no lock while the load runs.  The flavor    *)
(* files are replaced once, at a moment when no load is reading them: the  *)
(* operator edits the directory and then asks for the reload.              *)
(***************************************************************************)
NewFlavorFiles == SubSeq(FlavorFiles, 3, 4)

\* A thread: its operation, its position in it, the dict its own load built,
\* the table its _get_flavors_cache() call returned, and the number of
\* cache_clear() calls made when it looked the cache up and when it returned.
ReloadThread(op, pc) ==
    [op |-> op, pc |-> pc, loaded |-> <<>>, table |-> <<>>, from |-> 0, to |-> 0]

InitReload ==
    /\ builder = _reset
    /\ version_files = {"4.15", "4.16"}
    /\ ics_cache = {}
    /\ call = NoCall
    /\ cfg = NoCfg
    /\ threads = <<ReloadThread("reload_flavors", "cache_clear"),
                   ReloadThread("get_flavor", "lookup"),
                   ReloadThread("list_flavors", "lookup")>>
    /\ yaml = NoYaml
    /\ flavors = [disk |-> FlavorFiles, cache |-> <<>>, clears |-> 0]
    /\ repo = NoRepo

\* One step of a _get_flavors_cache() call of thread t: the cache lookup,
\* the load of a call that missed, or the store and return of its result.
GetFlavorsCacheStep(t) ==
    LET th == threads[t]
    IN  CASE th.pc = "lookup" ->
                 /\ threads' = [threads EXCEPT ![t] =
                        IF flavors.cache # <<>>
                        THEN [th EXCEPT !.pc = "returned", !.table = flavors.cache,
                                        !.from = flavors.clears, !.to = flavors.clears]
                        ELSE [th EXCEPT !.pc = "load", !.from = flavors.clears]]
                 /\ UNCHANGED flavors
          [] th.pc = "load" ->
                 /\ threads' = [threads EXCEPT ![t] =
                        [th EXCEPT !.pc = "store",
                                   !.loaded = <<_load_all_flavors(flavors.disk)>>]]
                 /\ UNCHANGED flavors
          [] th.pc = "store" ->
                 /\ flavors' = lru_cache_store(flavors, th.loaded[1])
                 /\ threads' = [threads EXCEPT ![t] =
                        [th EXCEPT !.pc = "returned", !.table = th.loaded,
                                   !.to = flavors.clears]]
          [] OTHER -> FALSE

\* reload_flavors(): cache_clear(), then _get_flavors_cache()
ReloadFlavors ==
    \E t \in 1..Len(threads) :
        /\ threads[t].op = "reload_flavors"
        /\ IF threads[t].pc = "cache_clear"
           THEN /\ flavors' = [cache_clear(flavors) EXCEPT !.clears = @ + 1]
                /\ threads' = [threads EXCEPT ![t].pc = "lookup"]
           ELSE GetFlavorsCacheStep(t)
        /\ UNCHANGED <<builder, version_files, ics_cache, call, cfg, yaml, repo>>

\* get_flavor(name) and list_flavors(): each starts with _get_flavors_cache()
ReadFlavors ==
    \E t \in 1..Len(threads) :
        /\ threads[t].op \in {"get_flavor", "list_flavors"}
        /\ GetFlavorsCacheStep(t)
        /\ UNCHANGED <<builder, version_files, ics_cache, call, cfg, yaml, repo>>

\* A reader that has returned calls again.
ReadAgain ==
    \E t \in 1..Len(threads) :
        /\ threads[t].op \in {"get_flavor", "list_flavors"}
        /\ threads[t].pc = "returned"
        /\ \E u \in 1..Len(threads) : threads[u].pc # "returned"
        /\ threads' = [threads EXCEPT ![t] = ReloadThread(threads[t].op, "lookup")]
        /\ UNCHANGED <<builder, version_files, ics_cache, call, cfg, yaml, flavors, repo>>

\* The operator replaces the files of the flavors directory.
WriteFlavorFiles ==
    /\ flavors.disk = FlavorFiles
    /\ \A t \in 1..Len(threads) : threads[t].pc \notin {"load", "store"}
    /\ flavors' = [flavors EXCEPT !.disk = NewFlavorFiles]
    /\ UNCHANGED <<builder, version_files, ics_cache, call, cfg, threads, yaml, repo>>

NextReload == ReloadFlavors \/ ReadFlavors \/ ReadAgain \/ WriteFlavorFiles

SpecReload == InitReload /\ [][NextReload]_vars

(***************************************************************************)
(* SpecNames: ConfigNames.get_nm_conf_name applied to two (cluster_name,   *)
(* vendor) pairs, over the supported vendors and cluster names that match  *)
(* the cluster-name pattern and end or start like a vendor.                *)
(***************************************************************************)
NmConfClusterNames ==
    {<<"a">>,
     <<"a", "-", "d", "e", "l", "l">>,
     <<"a", "-", "d", "e", "l", "l", "-", "d", "a", "t", "a">>,
     <<"a", "-", "h", "1", "0", "0">>,
     <<"a", "-", "c", "i", "s", "c", "o">>,
     <<"d", "e", "l", "l">>,
     <<"d", "a", "t", "a">>,
     <<"g", "p", "u">>,
     <<"h", "1", "0", "0", "-", "g", "p", "u", "-", "a">>,
     <<"1">>,
     <<"a", "-">>}

\* The pairs of (cluster_name, vendor) pairs the function is applied to.
NmConfArgs ==
    LET pair == {p \in NmConfClusterNames \X {Vendor_values[i] : i \in 1..Len(Vendor_values)} :
                    cluster_name_pattern(p[1])}
    IN  pair \X pair

InitNames ==
    /\ builder = _reset
    /\ version_files = {}
    /\ ics_cache = {}
    /\ call = NoCall
    /\ threads = NoThreads
    /\ yaml = NoYaml
    /\ flavors = NoFlavors
    /\ repo = NoRepo
    /\ cfg \in {[op |-> "args", args |-> a, vendor |-> <<>>, result |-> <<>>] :
                   a \in NmConfArgs}

\* ConfigNames.get_nm_conf_name for the first and for the second pair
GetNmConfNames ==
    /\ cfg.op = "args"
    /\ cfg' = [cfg EXCEPT !.op = "get_nm_conf_name",
                          !.result = [i \in 1..2 |->
                                         get_nm_conf_name(cfg.args[i][1], cfg.args[i][2])]]
    /\ UNCHANGED <<builder, version_files, ics_cache, call, threads, yaml, flavors, repo>>

NextNames == GetNmConfNames

SpecNames == InitNames /\ [][NextNames]_vars

(***************************************************************************)
(* SpecVendors: direct generate calls on one generator, with every list of *)
(* supported vendors up to the bound as vendor_configs, the lists that     *)
(* name a vendor twice among them.                                         *)
(***************************************************************************)
VendorArgs ==
    [cluster_name : {<<"a">>},
     site : {"dc1"},
     vendor_configs : SeqsUpTo(SupportedVendorConfigs, MaxVendorConfigs),
     ocp_version : {"4.15", "4.16"},
     dns_domain : {"prod.company.com"},
     max_pods : {STANDARD},
     include_var_lib_containers : {FALSE},
     include_ringsize : BOOLEAN,
     custom_configs : {<<>>}]

\* generator.generate(ClusterGenerationInput(**args))
GenerateVendors ==
    \E args \in VendorArgs :
        /\ call.kind = "none"
        /\ Len(builder.nodepools) + Len(args.vendor_configs) <= MaxNodepools
        /\ GenerateCalled(args, ClusterGenerationInput(args))
        /\ UNCHANGED <<version_files, cfg, threads, yaml, flavors, repo>>

NextVendors == GenerateVendors \/ Return

SpecVendors == Init /\ [][NextVendors]_vars

(***************************************************************************)
(* SpecBuilder: the methods of one ClusterBuilder called directly, in any  *)
(* order, with and without a cluster name or a site, and with replicas on  *)
(* both sides of 1.  call.returned keeps the document the last successful  *)
(* build() handed out: ClusterConfig validation copies the lists it is     *)
(* given and _reset binds new lists, so the document shares no list with   *)
(* the builder.                                                            *)
(***************************************************************************)
BuilderReplicas == {-1, 0, 1}

InitBuilder ==
    /\ builder = _reset
    /\ version_files = {"4.16"}
    /\ ics_cache = {}
    /\ call = [kind |-> "none", args |-> <<>>, raised |-> "", config |-> <<>>,
               returned |-> <<>>]
    /\ cfg = NoCfg
    /\ threads = NoThreads
    /\ yaml = NoYaml
    /\ flavors = NoFlavors
    /\ repo = NoRepo

\* What a builder call that returned r records; a setter returns no document.
BuilderCalled(kind, args, r) ==
    /\ builder' = r.b
    /\ call' = [kind |-> kind, args |-> args, raised |-> r.raised, config |-> <<>>,
                returned |-> call.returned]

\* builder.set_cluster_name(name), builder.set_site(site),
\* builder.set_dns_domain(domain), builder.set_max_pods(max_pods)
BuilderSet ==
    /\ \/ \E name \in {<<>>, <<"a">>} :
             BuilderCalled("set_cluster_name", <<name>>,
                           [raised |-> "", b |-> set_cluster_name(builder, name)])
       \/ \E site \in {"", "dc1"} :
             BuilderCalled("set_site", <<site>>,
                           [raised |-> "", b |-> set_site(builder, site)])
       \/ BuilderCalled("set_dns_domain", <<"lab.company.com">>,
                        [raised |-> "", b |-> set_dns_domain(builder, "lab.company.com")])
       \/ BuilderCalled("set_max_pods", <<HIGH_DENSITY>>,
                        [raised |-> "", b |-> set_max_pods(builder, HIGH_DENSITY)])
    /\ UNCHANGED <<version_files, ics_cache, cfg, threads, yaml, flavors, repo>>

\* builder.add_nodepool(vendor="dell", replicas=replicas, infra_env_name="env")
BuilderAddNodepool ==
    \E replicas \in BuilderReplicas :
        /\ Len(builder.nodepools) < MaxNodepools
        /\ BuilderCalled("add_nodepool", <<replicas>>,
                         add_nodepool(builder, DELL, replicas, "env", FALSE, FALSE, <<>>))
        /\ UNCHANGED <<version_files, ics_cache, cfg, threads, yaml, flavors, repo>>

\* builder.set_mc_files(vendors=["dell"])
BuilderSetMcFiles ==
    /\ BuilderCalled("set_mc_files", <<<<DELL>>>>,
                     set_mc_files(builder, <<DELL>>, FALSE, FALSE, <<>>))
    /\ UNCHANGED <<version_files, ics_cache, cfg, threads, yaml, flavors, repo>>

\* builder.set_image_content_sources("4.16")
BuilderSetImageContentSources ==
    LET r == set_image_content_sources(builder, "4.16", version_files, ics_cache)
    IN  /\ BuilderCalled("set_image_content_sources", <<"4.16">>, r)
        /\ ics_cache' = r.cache
        /\ UNCHANGED <<version_files, cfg, threads, yaml, flavors, repo>>

\* builder.build() has returned r
BuilderBuilt(r) ==
    /\ builder' = r.b
    /\ call' = [kind |-> "build", args |-> <<>>, raised |-> r.raised,
                config |-> r.config,
                returned |-> IF r.raised = "" THEN r.config ELSE call.returned]

\* builder.build()
BuilderBuild ==
    /\ BuilderBuilt(build(builder))
    /\ UNCHANGED <<version_files, ics_cache, cfg, threads, yaml, flavors, repo>>

NextBuilder ==
    \/ BuilderSet
    \/ BuilderAddNodepool
    \/ BuilderSetMcFiles
    \/ BuilderSetImageContentSources
    \/ BuilderBuild

SpecBuilder == InitBuilder /\ [][NextBuilder]_vars

(***************************************************************************)
(* git_ops/repository.py: GitRepository                                    *)
(*                                                                         *)
(* The repository at repo_path is a record: exists (repo_path/.git is      *)
(* there), branches (the names of repo.branches), current (the name of     *)
(* the checked-out branch), born (HEAD resolves to a commit), dirty        *)
(* (repo.is_dirty()), origin (a remote named origin is configured),        *)
(* committed (the branches index.commit was run on) and pushed (the        *)
(* branches origin.push was run for).  What git and the file system answer *)
(* is an environment record env: blocked (git refuses to switch branches   *)
(* over local changes), writable (the file can be written), changed (the   *)
(* content differs from what HEAD has), hook_ok (the commit hooks pass),   *)
(* reachable (the push does not raise), clone_ok (the clone succeeds).     *)
(* Branch names are sequences of characters: generate_branch_name formats  *)
(* them.                                                                   *)
(***************************************************************************)
MAIN == <<"m", "a", "i", "n">>
MASTER == <<"m", "a", "s", "t", "e", "r">>

\* GitRepository.__init__ / _initialize_repository: [raised, repo]
_initialize_repository(r, remote_url, env) ==
    IF r.exists THEN [raised |-> "", repo |-> r]
    ELSE IF remote_url # ""
    THEN IF env.clone_ok
         THEN [raised |-> "",
               repo |-> [exists |-> TRUE, branches |-> {MAIN}, current |-> MAIN,
                         born |-> TRUE, dirty |-> FALSE, origin |-> TRUE,
                         committed |-> {}, pushed |-> {}]]
         ELSE [raised |-> "RuntimeError", repo |-> r]
    ELSE [raised |-> "",
          repo |-> [exists |-> TRUE, branches |-> {}, current |-> MASTER,
                    born |-> FALSE, dirty |-> FALSE, origin |-> FALSE,
                    committed |-> {}, pushed |-> {}]]

\* self.repo.git.checkout(name): [raised, repo].  Git refuses a name that is
\* no branch, and may refuse to leave the current branch over local changes.
checkout(r, name, env) ==
    IF name \notin r.branches THEN [raised |-> "GitCommandError", repo |-> r]
    ELSE IF name # r.current /\ r.dirty /\ env.blocked
    THEN [raised |-> "GitCommandError", repo |-> r]
    ELSE [raised |-> "", repo |-> [r EXCEPT !.current = name]]

\* self.repo.create_head(branch_name); new_branch.checkout(), in the
\* repository r the checkout of the base branch has left: [ok, repo]
create_head_checkout(r, branch_name) ==
    IF ~r.born THEN [ok |-> FALSE, repo |-> r]
    ELSE [ok |-> TRUE,
          repo |-> [r EXCEPT !.branches = @ \cup {branch_name},
                             !.current = branch_name]]

\* create_branch that creates the head also when the branch exists and does
\* not check it out.
create_branch_always_new(r, branch_name, env) ==
    IF ~r.born THEN [ok |-> FALSE, repo |-> r]
    ELSE [ok |-> TRUE, repo |-> [r EXCEPT !.branches = @ \cup {branch_name}]]

\* create_branch(branch_name, base_branch="main"): [ok, repo]
create_branch(r, branch_name, env) ==
    IF ~r.exists THEN [ok |-> FALSE, repo |-> r]
    ELSE IF branch_name \in r.branches
    THEN [ok |-> checkout(r, branch_name, env).raised = "",
          repo |-> checkout(r, branch_name, env).repo]
    ELSE IF MAIN \in r.branches
    THEN IF checkout(r, MAIN, env).raised # ""
         THEN [ok |-> FALSE, repo |-> r]
         ELSE create_head_checkout(checkout(r, MAIN, env).repo, branch_name)
    ELSE \* main is no branch: the first checkout raises, master is tried,
         \* and a second GitCommandError is only logged
         create_head_checkout(checkout(r, MASTER, env).repo, branch_name)

\* add_file(file_path, content): [ok, repo]
add_file(r, env) ==
    IF ~r.exists \/ ~env.writable THEN [ok |-> FALSE, repo |-> r]
    ELSE [ok |-> TRUE, repo |-> [r EXCEPT !.dirty = @ \/ env.changed]]

\* commit_changes(commit_message, author_name, author_email): [ok, repo]
commit_changes(r, env) ==
    IF ~r.exists THEN [ok |-> FALSE, repo |-> r]
    ELSE IF ~r.dirty THEN [ok |-> TRUE, repo |-> r]
    ELSE IF ~env.hook_ok THEN [ok |-> FALSE, repo |-> r]
    ELSE [ok |-> TRUE,
          repo |-> [r EXCEPT !.dirty = FALSE, !.committed = @ \cup {r.current}]]

\* push_branch(branch_name, remote="origin"): [ok, repo]
push_branch(r, branch_name, env) ==
    IF ~r.exists \/ ~r.origin \/ ~env.reachable THEN [ok |-> FALSE, repo |-> r]
    ELSE [ok |-> TRUE, repo |-> [r EXCEPT !.pushed = @ \cup {branch_name}]]

\* f"add-cluster-{cluster_name}-{site}"
generate_branch_name(cluster_name, site) ==
    <<"a", "d", "d", "-", "c", "l", "u", "s", "t", "e", "r", "-">>
    \o cluster_name \o <<"-">> \o site

(***************************************************************************)
(* api/routers/clusters.py generate_cluster and cli.py generate: the       *)
(* flavor-template pipeline with the GitOps steps.  Both return a record   *)
(* with the repository they leave and steps, the calls they made in order  *)
(* with what each reported.  The templates directory is not part of the    *)
(* sources: the flavor "default" stands for a template that validates and  *)
(* renders, "legacy" for one that validates and does not render to a       *)
(* ClusterConfig, every other name for no template.                        *)
(***************************************************************************)
\* ClusterInput(...): the fields both callers pass on
ClusterInput_valid(a) ==
    /\ cluster_name_valid(a.cluster_name)
    \* v.replace('-', '').replace('_', '').isalnum(), over the characters of
    \* the model
    /\ \E i \in 1..Len(a.site) : a.site[i] \in LowerLetters \cup DigitChars
    /\ \A i \in 1..Len(a.site) : a.site[i] \in LowerLetters \cup DigitChars \cup {"-", "_"}
    /\ a.number_of_nodes >= 1
    /\ a.number_of_nodes <= 100

\* ClusterGenerator.validate_flavor
validate_flavor(flavor) == flavor \in {"default", "legacy"}

\* ClusterGenerator.generate_yaml_content: [raised, yaml_content]
generate_yaml_content(a) ==
    IF a.flavor # "default" THEN [raised |-> "ValueError", yaml_content |-> <<>>]
    ELSE [raised |-> "",
          yaml_content |-> <<[clusterName |-> a.cluster_name,
                              replicas |-> a.number_of_nodes, site |-> a.site]>>]

Step(op, ok) == [op |-> op, ok |-> ok]

\* The endpoint raised HTTPException(status).
HttpFailure(status, r, steps) ==
    [status |-> status, dry_run |-> FALSE, yaml_content |-> <<>>, git_info |-> <<>>,
     repo |-> r, steps |-> steps]

\* The endpoint that fails the request when the push fails.
clusters_after_push_strict(branch_name, steps, p) ==
    IF ~p.ok THEN HttpFailure(500, p.repo, Append(steps, Step("push_branch", FALSE)))
    ELSE [status |-> 201, dry_run |-> FALSE, yaml_content |-> <<>>,
          git_info |-> <<[branch_name |-> branch_name, pushed |-> TRUE]>>,
          repo |-> p.repo, steps |-> Append(steps, Step("push_branch", TRUE))]

\* pushed = git_repo.push_branch(branch_name) has returned p
clusters_after_push(branch_name, steps, p) ==
    [status |-> 201, dry_run |-> FALSE, yaml_content |-> <<>>,
     git_info |-> <<[branch_name |-> branch_name, pushed |-> p.ok]>>,
     repo |-> p.repo, steps |-> Append(steps, Step("push_branch", p.ok))]

\* git_repo.commit_changes(...) has returned c
clusters_after_commit(branch_name, env, steps, c) ==
    IF ~c.ok THEN HttpFailure(500, c.repo, Append(steps, Step("commit_changes", FALSE)))
    ELSE clusters_after_push(branch_name, Append(steps, Step("commit_changes", TRUE)),
                             push_branch(c.repo, branch_name, env))

\* git_repo.add_file(output_path, yaml_content) has returned f
clusters_after_add(branch_name, env, steps, f) ==
    IF ~f.ok THEN HttpFailure(500, f.repo, Append(steps, Step("add_file", FALSE)))
    ELSE clusters_after_commit(branch_name, env, Append(steps, Step("add_file", TRUE)),
                               commit_changes(f.repo, env))

\* The endpoint that goes on to add_file whatever create_branch reported.
clusters_after_branch_unchecked(branch_name, env, steps, b) ==
    clusters_after_add(branch_name, env, Append(steps, Step("create_branch", b.ok)),
                       add_file(b.repo, env))

\* git_repo.create_branch(branch_name) has returned b
clusters_after_branch(branch_name, env, steps, b) ==
    IF ~b.ok THEN HttpFailure(500, b.repo, Append(steps, Step("create_branch", FALSE)))
    ELSE clusters_after_add(branch_name, env, Append(steps, Step("create_branch", TRUE)),
                            add_file(b.repo, env))

\* GitRepository(Path(repo_path), remote_url) has returned g
clusters_gitops(request, env, steps, g) ==
    IF g.raised # "" THEN HttpFailure(500, g.repo, Append(steps, Step("GitRepository", FALSE)))
    ELSE clusters_after_branch(generate_branch_name(request.cluster_name, request.site),
                               env, Append(steps, Step("GitRepository", TRUE)),
                               create_branch(g.repo,
                                             generate_branch_name(request.cluster_name,
                                                                  request.site),
                                             env))

\* generator.generate_yaml_content(cluster_input) has returned y
clusters_generated(r, request, settings, env, y) ==
    IF y.raised # ""
    THEN HttpFailure(500, r, <<Step("validate_flavor", TRUE),
                               Step("generate_yaml_content", FALSE)>>)
    ELSE LET repo_path == IF request.repo_path # "" THEN request.repo_path
                          ELSE settings.GITOPS_REPO_PATH
             remote_url == IF request.remote_url # "" THEN request.remote_url
                           ELSE settings.GITOPS_REPO_URL
             steps == <<Step("validate_flavor", TRUE), Step("generate_yaml_content", TRUE)>>
         IN  IF repo_path = "" \/ remote_url = ""
             THEN [status |-> 201, dry_run |-> TRUE, yaml_content |-> y.yaml_content,
                   git_info |-> <<>>, repo |-> r, steps |-> steps]
             ELSE clusters_gitops(request, env, steps,
                                  _initialize_repository(r, remote_url, env))

\* The endpoint that goes on to the GitOps steps whatever repo_path and
\* remote_url are.
clusters_generate_cluster_never_dry(r, request, settings, env) ==
    IF ~ClusterInput_valid(request) THEN HttpFailure(500, r, <<>>)
    ELSE IF ~validate_flavor(request.flavor)
    THEN HttpFailure(400, r, <<Step("validate_flavor", FALSE)>>)
    ELSE IF generate_yaml_content(request).raised # ""
    THEN HttpFailure(500, r, <<Step("validate_flavor", TRUE),
                               Step("generate_yaml_content", FALSE)>>)
    ELSE clusters_gitops(request, env,
                         <<Step("validate_flavor", TRUE), Step("generate_yaml_content", TRUE)>>,
                         _initialize_repository(r, "git@host:gitops.git", env))

\* POST /clusters/generate: [status, dry_run, yaml_content, git_info, repo, steps]
clusters_generate_cluster(r, request, settings, env) ==
    IF ~ClusterInput_valid(request) THEN HttpFailure(500, r, <<>>)
    ELSE IF ~validate_flavor(request.flavor)
    THEN HttpFailure(400, r, <<Step("validate_flavor", FALSE)>>)
    ELSE clusters_generated(r, request, settings, env, generate_yaml_content(request))

\* The command ended with exit_code.
CliExit(exit_code, r, steps) == [exit_code |-> exit_code, repo |-> r, steps |-> steps]

\* git_repo.commit_changes(commit_message) has returned c; a push that
\* fails is a warning.
cli_after_commit(branch_name, env, steps, c) ==
    IF ~c.ok THEN CliExit(1, c.repo, Append(steps, Step("commit_changes", FALSE)))
    ELSE CliExit(0, push_branch(c.repo, branch_name, env).repo,
                 steps \o <<Step("commit_changes", TRUE),
                            Step("push_branch", push_branch(c.repo, branch_name, env).ok)>>)

\* git_repo.add_file(output_path, yaml_content) has returned f
cli_after_add(branch_name, env, steps, f) ==
    IF ~f.ok THEN CliExit(1, f.repo, Append(steps, Step("add_file", FALSE)))
    ELSE cli_after_commit(branch_name, env, Append(steps, Step("add_file", TRUE)),
                          commit_changes(f.repo, env))

\* git_repo.create_branch(branch_name) has returned b
cli_after_branch(branch_name, env, steps, b) ==
    IF ~b.ok THEN CliExit(1, b.repo, Append(steps, Step("create_branch", FALSE)))
    ELSE cli_after_add(branch_name, env, Append(steps, Step("create_branch", TRUE)),
                       add_file(b.repo, env))

\* GitRepository(repo_path, remote_url) has returned g
cli_gitops(args, env, steps, g) ==
    IF g.raised # "" THEN CliExit(1, g.repo, Append(steps, Step("GitRepository", FALSE)))
    ELSE cli_after_branch(generate_branch_name(args.cluster_name, args.site),
                          env, Append(steps, Step("GitRepository", TRUE)),
                          create_branch(g.repo,
                                        generate_branch_name(args.cluster_name, args.site),
                                        env))

\* generator.generate_yaml_content(cluster_input) has returned y
cli_generated(r, args, env, y) ==
    IF y.raised # ""
    THEN CliExit(1, r, <<Step("validate_flavor", TRUE), Step("generate_yaml_content", FALSE)>>)
    ELSE LET steps == <<Step("validate_flavor", TRUE), Step("generate_yaml_content", TRUE)>>
         IN  IF args.dry_run THEN CliExit(0, r, steps)
             ELSE IF args.repo_path = "" THEN CliExit(1, r, steps)
             ELSE cli_gitops(args, env, steps,
                             _initialize_repository(r, args.remote_url, env))

\* mce-gen generate ...: [exit_code, repo, steps]
cli_generate(r, args, env) ==
    IF ~ClusterInput_valid(args) THEN CliExit(1, r, <<>>)
    ELSE IF ~validate_flavor(args.flavor)
    THEN CliExit(1, r, <<Step("validate_flavor", FALSE)>>)
    ELSE cli_generated(r, args, env, generate_yaml_content(args))

(***************************************************************************)
(* utils/exceptions/decorators.py                                          *)
(*                                                                         *)
(* An exception is the name of its class; an HTTPException carries its     *)
(* status code in the name.  "ValidationError" is pydantic's (a            *)
(* ValueError); utils.exceptions has "exceptions.ValidationError".         *)
(***************************************************************************)
\* MCEGeneratorError and its subclasses (utils/exceptions/exceptions.py)
MCEGeneratorErrors ==
    {"MCEGeneratorError", "TemplateError", "exceptions.ValidationError",
     "GitOpsError", "ConfigurationError", "PathValidationError"}

HTTPExceptions ==
    {"HTTPException400", "HTTPException404", "HTTPException409", "HTTPException500"}

\* HTTPException.status_code
status_code(e) ==
    CASE e = "HTTPException400" -> 400
      [] e = "HTTPException404" -> 404
      [] e = "HTTPException409" -> 409
      [] e = "HTTPException500" -> 500

\* The wrapper without the clause that re-raises an HTTPException.
handle_api_exceptions_no_reraise(raised) ==
    IF raised = "" THEN ""
    ELSE IF raised \in MCEGeneratorErrors THEN "HTTPException400"
    ELSE IF raised = "KeyError" THEN "HTTPException404"
    ELSE "HTTPException500"

\* wrapper of handle_api_exceptions: what the wrapped endpoint raises
\* ("" when it returns) to what the wrapper raises; the except clauses are
\* tried in the order written.
handle_api_exceptions(raised) ==
    IF raised = "" THEN ""
    ELSE IF raised \in MCEGeneratorErrors THEN "HTTPException400"
    ELSE IF raised \in HTTPExceptions THEN raised
    ELSE IF raised = "KeyError" THEN "HTTPException404"
    ELSE "HTTPException500"

(***************************************************************************)
(* SpecEndpoint: endpoints wrapped by handle_api_exceptions over one       *)
(* ClusterService.  An endpoint body is a call of generate_cluster or of   *)
(* generate_from_flavor, or it raises an exception of any class (the       *)
(* wrapper does not depend on the body).                                   *)
(***************************************************************************)
EndpointExceptions ==
    MCEGeneratorErrors \cup HTTPExceptions
    \cup {"KeyError", "ValueError", "FileNotFoundError", "RuntimeError",
          "ValidationError", "TypeError"}

\* What a wrapped endpoint records: its body returned s, the wrapper
\* answered with handle_api_exceptions(s.raised).
EndpointAnswers(kind, args, s) ==
    /\ builder' = s.b
    /\ ics_cache' = s.cache
    /\ call' = [kind |-> kind, args |-> <<args>>, input |-> s.input,
                raised |-> s.raised, config |-> s.config, response |-> s.response,
                detail |-> s.detail, answered |-> handle_api_exceptions(s.raised)]

\* return service.generate_cluster(request)
EndpointGenerateCluster ==
    \E args \in ServiceArgs :
        /\ call.kind = "none"
        /\ Len(builder.nodepools) + Len(args.vendor_configs) <= MaxNodepools
        /\ EndpointAnswers("generate_cluster", args,
                           generate_cluster(builder, args, version_files, ics_cache))
        /\ UNCHANGED <<version_files, cfg, threads, yaml, flavors, repo>>

EndpointGenerateFromFlavorCalled(args, got) ==
    /\ flavors' = got.f
    /\ EndpointAnswers("generate_from_flavor", args,
                       generate_from_flavor(builder, got.table, args,
                                            version_files, ics_cache))

\* return service.generate_from_flavor(...)
EndpointGenerateFromFlavor ==
    \E args \in FlavorArgs :
        /\ call.kind = "none"
        /\ Len(builder.nodepools) + 2 <= MaxNodepools
        /\ EndpointGenerateFromFlavorCalled(args, _get_flavors_cache(flavors))
        /\ UNCHANGED <<version_files, cfg, threads, yaml, repo>>

\* an endpoint whose body raises e
EndpointRaises ==
    \E e \in EndpointExceptions :
        /\ call.kind = "none"
        /\ call' = [kind |-> "endpoint", args |-> <<>>, input |-> <<>>, raised |-> e,
                    config |-> <<>>, response |-> <<>>, detail |-> <<>>,
                    answered |-> handle_api_exceptions(e)]
        /\ UNCHANGED <<builder, version_files, ics_cache, cfg, threads, yaml, flavors, repo>>

NextEndpoint ==
    \/ EndpointGenerateCluster
    \/ EndpointGenerateFromFlavor
    \/ EndpointRaises
    \/ Return

SpecEndpoint == InitService /\ [][NextEndpoint]_vars

(***************************************************************************)
(* SpecGitOps: generate requests over HTTP and from the command line, and  *)
(* direct create_branch calls, on one GitOps repository path that starts   *)
(* without a repository, with a clone on main, with a repository that has  *)
(* only master and no remote, with a repository without commits, or with   *)
(* a clone that already has the branch of a cluster.  Each call meets an   *)
(* environment in which at most one of git's answers is a failure.         *)
(***************************************************************************)
GitClusterNames == {<<"a">>, <<"b">>}
GitSite == <<"d", "c", "1">>

Repositories ==
    {NoRepo,
     [NoRepo EXCEPT !.exists = TRUE, !.branches = {MAIN}, !.current = MAIN,
                    !.born = TRUE, !.origin = TRUE],
     [NoRepo EXCEPT !.exists = TRUE, !.branches = {MASTER}, !.current = MASTER,
                    !.born = TRUE],
     [NoRepo EXCEPT !.exists = TRUE, !.current = MASTER],
     [NoRepo EXCEPT !.exists = TRUE,
                    !.branches = {MAIN, generate_branch_name(<<"a">>, GitSite)},
                    !.current = MAIN, !.born = TRUE, !.origin = TRUE]}

GitEnvironments ==
    {[blocked |-> fault = "blocked", writable |-> fault # "readonly",
      changed |-> fault # "unchanged", hook_ok |-> fault # "hook",
      reachable |-> fault # "unreachable", clone_ok |-> fault # "clone"] :
         fault \in {"none", "blocked", "readonly", "unchanged", "hook",
                    "unreachable", "clone"}}

GitSettings ==
    {[GITOPS_REPO_PATH |-> "", GITOPS_REPO_URL |-> ""],
     [GITOPS_REPO_PATH |-> "/srv/gitops", GITOPS_REPO_URL |-> "git@host:gitops.git"]}

\* Requests that pass every check, and one that fails each of the input
\* model, the flavor validation and the generation.
HttpRequests ==
    [cluster_name : GitClusterNames, site : {GitSite}, number_of_nodes : {1},
     flavor : {"default"}, repo_path : {"", "/srv/gitops"},
     remote_url : {"", "git@host:gitops.git"}]
    \cup [cluster_name : {<<"a">>}, site : {GitSite}, number_of_nodes : {1},
          flavor : {"legacy", "missing"}, repo_path : {"/srv/gitops"},
          remote_url : {"git@host:gitops.git"}]
    \cup [cluster_name : {<<"a">>}, site : {GitSite}, number_of_nodes : {101},
          flavor : {"default"}, repo_path : {"/srv/gitops"},
          remote_url : {"git@host:gitops.git"}]

CliArgs ==
    [cluster_name : GitClusterNames, site : {GitSite}, number_of_nodes : {1},
     flavor : {"default"}, repo_path : {"", "/srv/gitops"},
     remote_url : {"", "git@host:gitops.git"}, dry_run : BOOLEAN]
    \cup [cluster_name : {<<"a">>}, site : {GitSite}, number_of_nodes : {1},
          flavor : {"legacy", "missing"}, repo_path : {"/srv/gitops"},
          remote_url : {"git@host:gitops.git"}, dry_run : {FALSE}]
    \cup [cluster_name : {<<"a">>}, site : {GitSite}, number_of_nodes : {101},
          flavor : {"default"}, repo_path : {"/srv/gitops"},
          remote_url : {"git@host:gitops.git"}, dry_run : {FALSE}]

BranchNames == {MAIN} \cup {generate_branch_name(c, GitSite) : c \in GitClusterNames}

InitGitOps ==
    /\ builder = _reset
    /\ version_files = {}
    /\ ics_cache = {}
    /\ call = [kind |-> "none"]
    /\ cfg = NoCfg
    /\ threads = NoThreads
    /\ yaml = NoYaml
    /\ flavors = NoFlavors
    /\ repo \in Repositories

\* What a request over HTTP records: the endpoint answered res.
HttpAnswered(request, settings, env, res) ==
    /\ repo' = res.repo
    /\ call' = [kind |-> "http", args |-> request, settings |-> settings, env |-> env,
                status |-> res.status, dry_run |-> res.dry_run,
                yaml_content |-> res.yaml_content, git_info |-> res.git_info,
                steps |-> res.steps]

\* POST /clusters/generate
HttpGenerate ==
    \E request \in HttpRequests, settings \in GitSettings, env \in GitEnvironments :
        /\ call.kind = "none"
        /\ HttpAnswered(request, settings, env,
                        clusters_generate_cluster(repo, request, settings, env))
        /\ UNCHANGED <<builder, version_files, ics_cache, cfg, threads, yaml, flavors>>

\* What a run of the command records.
CliExited(args, env, res) ==
    /\ repo' = res.repo
    /\ call' = [kind |-> "cli", args |-> args, env |-> env,
                exit_code |-> res.exit_code, steps |-> res.steps]

\* mce-gen generate
CliGenerate ==
    \E args \in CliArgs, env \in GitEnvironments :
        /\ call.kind = "none"
        /\ CliExited(args, env, cli_generate(repo, args, env))
        /\ UNCHANGED <<builder, version_files, ics_cache, cfg, threads, yaml, flavors>>

\* What a direct create_branch records.
BranchCreated(branch_name, env, b) ==
    /\ repo' = b.repo
    /\ call' = [kind |-> "create_branch", args |-> branch_name, env |-> env,
                ok |-> b.ok]

\* git_repo.create_branch(branch_name) on an opened repository
CreateBranch ==
    \E branch_name \in BranchNames, env \in GitEnvironments :
        /\ call.kind = "none"
        /\ repo.exists
        /\ BranchCreated(branch_name, env, create_branch(repo, branch_name, env))
        /\ UNCHANGED <<builder, version_files, ics_cache, cfg, threads, yaml, flavors>>

\* The caller is done with the answer; the repository stays as it is.
GitOpsReturn ==
    /\ call.kind # "none"
    /\ call' = [kind |-> "none"]
    /\ UNCHANGED <<builder, version_files, ics_cache, cfg, threads, yaml, flavors, repo>>

NextGitOps == HttpGenerate \/ CliGenerate \/ CreateBranch \/ GitOpsReturn

SpecGitOps == InitGitOps /\ [][NextGitOps]_vars

(***************************************************************************)
(* Properties.                                                             *)
(***************************************************************************)
\* The last call was a generate (direct or through the service) that returned
\* a document.
Returned ==
    /\ call.kind \in {"generate", "generate_cluster"}
    /\ call.raised = ""
    /\ call.config # <<>>

\* The document the last call returned, and the ClusterGenerationInput it
\* was given (both only meaningful where Returned holds).
Doc == call.config[1]
Inp == call.input[1]

\* The config names of a nodepool, as a set.
ConfigNamesOf(nodepool) == {nodepool.config[i].name : i \in 1..Len(nodepool.config)}

\* The entries of a list of names, as a set.
Entries(names) == {names[i] : i \in 1..Len(names)}

ConfigBuilt == cfg.op \in {"build_for_nodepool", "build_mc_files"}
CfgArgs == cfg.args[1]

\* How many entries of a list of names equal a name.
Count(names, name) == Cardinality({i \in 1..Len(names) : names[i] = name})

\* How many custom configs equal a name once stripped.
CustomCount(custom_configs, name) ==
    Cardinality({i \in 1..Len(custom_configs) : strip(custom_configs[i]) = name})

\* C3 as stated: with max_pods 250 and include_var_lib_containers false,
\* 98-var-lib-containers is in no list ConfigListBuilder builds (nodepool
\* config list or mcFiles), for every include_ringsize and custom_configs.
C3_NoVarLibAt250 ==
    (ConfigBuilt /\ CfgArgs.max_pods = STANDARD /\ ~CfgArgs.include_var_lib_containers)
        => VAR_LIB_CONTAINERS \notin Entries(cfg.result)

\* C3 as the code has it: with max_pods 250 and include_var_lib_containers
\* false, the lists ConfigListBuilder builds hold 98-var-lib-containers only
\* where custom_configs asks for it: once per custom config that equals the
\* name once stripped, whatever include_ringsize is.
C3_VarLibAt250OnlyFromCustom ==
    (ConfigBuilt /\ CfgArgs.max_pods = STANDARD /\ ~CfgArgs.include_var_lib_containers)
        => Count(cfg.result, VAR_LIB_CONTAINERS)
               = CustomCount(CfgArgs.custom_configs, VAR_LIB_CONTAINERS)

\* C3's case: mcFiles built at 250 without the flag, with ringsize and with
\* custom configs none of which is the var-lib name, holds no var-lib entry.
C3_Witness ==
    /\ cfg.op = "build_mc_files"
    /\ CfgArgs.max_pods = STANDARD
    /\ ~CfgArgs.include_var_lib_containers
    /\ CfgArgs.include_ringsize
    /\ Len(CfgArgs.custom_configs) = MaxCustomConfigs
    /\ CustomCount(CfgArgs.custom_configs, VAR_LIB_CONTAINERS) = 0
    /\ VAR_LIB_CONTAINERS \notin Entries(cfg.result)
    /\ RINGSIZE \in Entries(cfg.result)

\* s is the decimal string of a positive integer: digits only, no leading 0.
IsDecimalString(s) ==
    /\ DOMAIN s = 1..Len(s)
    /\ Len(s) >= 1
    /\ \A i \in 1..Len(s) : s[i] \in DigitChars
    /\ s[1] # "0"

NmConfName(cluster_name, vendor) ==
    <<"n", "m", "-", "c", "o", "n", "f", "-">> \o cluster_name \o <<"-">> \o vendor

IsNonBlank(c) == c # <<>>

ExpectedCustom(custom_configs) ==
    SelectSeq([i \in 1..Len(custom_configs) |-> strip(custom_configs[i])], IsNonBlank)

ExpectedSuffix(max_pods, include_var_lib, include_ringsize, custom_configs) ==
    <<WORKERS_CHRONY,
      IF max_pods = 500 THEN KUBELET_CONFIG_500 ELSE KUBELET_CONFIG_250>>
    \o (IF include_var_lib \/ max_pods = 500 THEN <<VAR_LIB_CONTAINERS>> ELSE <<>>)
    \o (IF include_ringsize THEN <<RINGSIZE>> ELSE <<>>)
    \o ExpectedCustom(custom_configs)

AutoNames(a) ==
    {WORKERS_CHRONY, IF a.max_pods = 500 THEN KUBELET_CONFIG_500 ELSE KUBELET_CONFIG_250}
    \cup (IF a.include_var_lib_containers \/ a.max_pods = 500
          THEN {VAR_LIB_CONTAINERS} ELSE {})
    \cup (IF a.include_ringsize THEN {RINGSIZE} ELSE {})

\* How many nm-conf entries of the vendors equal a name.
NmConfCount(a, name) ==
    Cardinality({i \in 1..Len(a.vendors) : NmConfName(a.cluster_name, a.vendors[i]) = name})

\* C7 as stated: mcFiles built by ConfigListBuilder lists each base, optional
\* and custom config name exactly once, also when custom names repeat or
\* equal an auto-generated name.
C7_McFilesListsEachOnce ==
    cfg.op = "build_mc_files" =>
        \A name \in AutoNames(CfgArgs) \cup Entries(ExpectedCustom(CfgArgs.custom_configs)) :
            Count(cfg.result, name) = 1

\* C7 as the code has it: mcFiles built by ConfigListBuilder lists each base
\* and each included optional name once for the whole cluster, whatever the
\* number of vendors, and each custom config as often as custom_configs gives
\* it, with no collision check: a name occurs once per vendor whose nm-conf
\* name it is, plus once if it is a base or included optional name, plus once
\* per custom config that equals it once stripped.
C7_McFilesCounts ==
    cfg.op = "build_mc_files" =>
        \A name \in AutoNames(CfgArgs) \cup Entries(cfg.result) :
            Count(cfg.result, name) =
                NmConfCount(CfgArgs, name)
                + (IF name \in AutoNames(CfgArgs) THEN 1 ELSE 0)
                + CustomCount(CfgArgs.custom_configs, name)

\* C7's case: mcFiles built for two vendors with the var-lib flag and two
\* custom configs, one a repeat of the var-lib name and one (padded) a repeat
\* of the chrony name: both names are listed twice.
C7_Witness ==
    /\ cfg.op = "build_mc_files"
    /\ Len(CfgArgs.vendors) = 2
    /\ CfgArgs.include_var_lib_containers
    /\ CfgArgs.custom_configs = <<VAR_LIB_CONTAINERS, <<" ">> \o WORKERS_CHRONY>>
    /\ Count(cfg.result, VAR_LIB_CONTAINERS) = 2
    /\ Count(cfg.result, WORKERS_CHRONY) = 2

C9_NodepoolConfigList ==
    cfg.op = "build_for_nodepool" =>
        cfg.result =
            <<NmConfName(CfgArgs.cluster_name, cfg.vendor)>>
            \o ExpectedSuffix(CfgArgs.max_pods, CfgArgs.include_var_lib_containers,
                              CfgArgs.include_ringsize, CfgArgs.custom_configs)

\* C9's case: the list built for the second of two vendors at 500 without the
\* var-lib flag, with ringsize, a blank custom config and a padded one.
C9_Witness ==
    /\ cfg.op = "build_for_nodepool"
    /\ CfgArgs.cluster_name = <<"c", "1">>
    /\ CfgArgs.vendors = <<DELL, CISCO>>
    /\ cfg.vendor = CISCO
    /\ CfgArgs.max_pods = HIGH_DENSITY
    /\ ~CfgArgs.include_var_lib_containers
    /\ CfgArgs.include_ringsize
    /\ CfgArgs.custom_configs = <<<<" ">>, <<" ", "a", "-", "m", "c", " ">>>>
    /\ cfg.result = <<<<"n", "m", "-", "c", "o", "n", "f", "-", "c", "1", "-",
                        "c", "i", "s", "c", "o">>,
                      WORKERS_CHRONY, KUBELET_CONFIG_500, VAR_LIB_CONTAINERS,
                      RINGSIZE, <<"a", "-", "m", "c">>>>

YamlReturned == call.kind = "generate_yaml" /\ call.raised = "" /\ yaml.text # <<>>

UnsupportedAt(vendor_configs) ==
    {i \in 1..Len(vendor_configs) :
        vendor_configs[i].vendor \notin {CISCO, DELL, DELL_DATA, H100_GPU, H200_GPU}}

ServiceCalled(c) ==
    /\ c.kind \in {"generate_cluster", "preview_cluster", "generate_from_flavor"}
    /\ "request" \in DOMAIN c
    /\ c.request # <<>>

\* "Invalid vendor: " and ". Valid vendors: cisco, dell, dell-data, h100-gpu, h200-gpu"
InvalidVendorText ==
    <<"I", "n", "v", "a", "l", "i", "d", " ", "v", "e", "n", "d", "o", "r",
      ":", " ">>

ValidVendorsText ==
    <<".", " ", "V", "a", "l", "i", "d", " ", "v", "e", "n", "d", "o", "r",
      "s", ":", " ", "c", "i", "s", "c", "o", ",", " ", "d", "e", "l", "l",
      ",", " ", "d", "e", "l", "l", "-", "d", "a", "t", "a", ",", " ", "h",
      "1", "0", "0", "-", "g", "p", "u", ",", " ", "h", "2", "0", "0", "-",
      "g", "p", "u">>

C15_NeverDefaulted ==
    call.kind \in {"get_image_content_sources", "set_image_content_sources"} =>
        LET version == call.args[1]
            supported == version \in {"4.15", "4.16"}
        IN  /\ ~supported => call.raised = "ValueError"
            /\ (supported /\ version \notin version_files) =>
                   call.raised = "FileNotFoundError"
            /\ call.raised = "" =>
                   /\ call.sources # <<>>
                   /\ call.sources = VersionFileSources(version)

TopLevelKeys(text) ==
    LET tops == {i \in 1..Len(text) : text[i][1] \notin {" ", "-"}}
        nth(k) == CHOOSE i \in tops : Cardinality({j \in tops : j < i}) = k - 1
        key(line) == SubSeq(line, 1,
                            (CHOOSE i \in 1..Len(line) :
                                 line[i] = ":" /\ \A j \in 1..(i - 1) : line[j] # ":") - 1)
    IN  [k \in 1..Cardinality(tops) |-> key(text[nth(k)])]

C19_NmConfNamesCollisionFree ==
    (cfg.op = "get_nm_conf_name" /\ cfg.args[1] # cfg.args[2]) =>
        cfg.result[1] # cfg.result[2]

\* Two distinct pairs whose names are equally long and differ only after
\* "nm-conf-a-dell-d": (a-dell, dell) and (a, dell-data).
C19_Witness ==
    /\ cfg.op = "get_nm_conf_name"
    /\ cfg.args[1] = <<<<"a", "-", "d", "e", "l", "l">>, DELL>>
    /\ cfg.args[2] = <<<<"a">>, DELL_DATA>>
    /\ Len(cfg.result[1]) = Len(cfg.result[2])
    /\ SubSeq(cfg.result[1], 1, 16) = SubSeq(cfg.result[2], 1, 16)

\* A service call returned a document.
ServiceReturned ==
    /\ ServiceCalled(call)
    /\ call.raised = ""
    /\ call.config # <<>>

ReturnedNodepools ==
    IF "returned" \in DOMAIN call /\ call.returned # <<>>
    THEN call.returned[1].nodepool ELSE <<>>

NodepoolNameOf(cluster_name, vendor) ==
    cluster_name \o <<"-">> \o vendor \o <<"-", "n", "o", "d", "e", "p", "o", "o", "l">>

VendorsOf(vendor_configs) == [i \in 1..Len(vendor_configs) |-> vendor_configs[i].vendor]
HasDuplicateVendor(vendor_configs) ==
    \E i, j \in 1..Len(vendor_configs) :
        i < j /\ vendor_configs[i].vendor = vendor_configs[j].vendor

Answered == "answered" \in DOMAIN call

GenerateOrder ==
    <<"validate_flavor", "generate_yaml_content", "GitRepository", "create_branch",
      "add_file", "commit_changes", "push_branch">>
GitSteps == {"create_branch", "add_file", "commit_changes", "push_branch"}

\* The last call was a generate request, over HTTP or from the command line.
GenerateRequested == call.kind \in {"http", "cli"}

\* The request was a dry run: over HTTP no repository path or no remote URL
\* is given or configured, on the command line --dry-run is given.
DryRun ==
    \/ /\ call.kind = "http"
       /\ \/ (call.args.repo_path = "" /\ call.settings.GITOPS_REPO_PATH = "")
          \/ (call.args.remote_url = "" /\ call.settings.GITOPS_REPO_URL = "")
    \/ /\ call.kind = "cli"
       /\ call.args.dry_run

\* C25: the calls of a generate request follow the order validate_flavor,
\* generate_yaml_content, GitRepository, create_branch, add_file,
\* commit_changes, push_branch: the GitOps steps come in this order after
\* the YAML was generated, a step is made only when every earlier call
\* reported success, and no git step is made when the flavor validation or
\* the generation failed.
C25_GitStepsInOrder ==
    GenerateRequested =>
        /\ Len(call.steps) <= Len(GenerateOrder)
        /\ \A i \in 1..Len(call.steps) :
               /\ i <= Len(GenerateOrder) => call.steps[i].op = GenerateOrder[i]
               /\ i < Len(call.steps) => call.steps[i].ok
        /\ (\E i \in 1..Len(call.steps) :
                /\ call.steps[i].op \in {"validate_flavor", "generate_yaml_content"}
                /\ ~call.steps[i].ok)
               => \A j \in 1..Len(call.steps) : call.steps[j].op \notin GitSteps

\* A request over HTTP made all four GitOps steps and each reported success.
C25_Witness ==
    /\ call.kind = "http"
    /\ Len(call.steps) = 7
    /\ \A i \in 1..Len(call.steps) : call.steps[i].ok
    /\ call.status = 201
    /\ repo.pushed # {}

\* C26: a create_branch, add_file or commit_changes that reports failure is
\* the last step of the request, which ends with HTTP 500 or exit code 1; a
\* push_branch that reports failure leaves the request a success: HTTP 201
\* with dry_run false and git_info.pushed false, exit code 0.
C26_GitFailures ==
    GenerateRequested =>
        \A i \in 1..Len(call.steps) :
            /\ (call.steps[i].op \in GitSteps \ {"push_branch"} /\ ~call.steps[i].ok)
                   => /\ i = Len(call.steps)
                      /\ call.kind = "http" => call.status = 500
                      /\ call.kind = "cli" => call.exit_code = 1
            /\ (call.steps[i].op = "push_branch" /\ ~call.steps[i].ok)
                   => /\ call.kind = "http"
                             => /\ call.status = 201
                                /\ ~call.dry_run
                                /\ call.git_info # <<>>
                                /\ ~call.git_info[1].pushed
                      /\ call.kind = "cli" => call.exit_code = 0

\* A request over HTTP whose push failed after a commit was made.
C26_Witness ==
    /\ call.kind = "http"
    /\ Len(call.steps) = 7
    /\ ~call.steps[7].ok
    /\ call.status = 201
    /\ call.git_info[1].pushed = FALSE
    /\ repo.committed # {}

\* C27: a dry-run request opens no GitRepository and makes no git step, and
\* leaves the repository as it was; over HTTP, when the YAML was generated,
\* the response is a success with dry_run true and the YAML content.
C27_DryRunTouchesNoRepository ==
    /\ []((GenerateRequested /\ DryRun)
            => /\ \A i \in 1..Len(call.steps) :
                      call.steps[i].op \notin GitSteps \cup {"GitRepository"}
               /\ (/\ call.kind = "http"
                   /\ \E i \in 1..Len(call.steps) :
                          call.steps[i] = Step("generate_yaml_content", TRUE))
                      => /\ call.status = 201
                         /\ call.dry_run
                         /\ call.yaml_content # <<>>
                         /\ call.yaml_content = generate_yaml_content(call.args).yaml_content
                         /\ call.git_info = <<>>)
    /\ [][(GenerateRequested /\ DryRun)' => repo' = repo]_vars

\* A request over HTTP with a repository path and no remote URL, on a path
\* without a repository, was answered with the YAML content.
C27_Witness ==
    /\ call.kind = "http"
    /\ call.args.repo_path # ""
    /\ call.args.remote_url = ""
    /\ call.settings.GITOPS_REPO_URL = ""
    /\ call.dry_run
    /\ call.yaml_content # <<>>
    /\ ~repo.exists

====
